---- MODULE Spec2Model ----
(***************************************************************************)
(* Review pipeline of verisanus-5: raw platform collections (google,       *)
(* trustpilot) -> unified_reviews -> ls_unified_reviews -> enriched_reviews.*)
(* The stores are MongoDB collections, modelled as sets of documents; the  *)
(* stages are modelled step by step (one action per loop iteration or      *)
(* store call) so that interleavings, failed writes and user interruptions *)
(* fall between the same statements as in the code.                        *)
(***************************************************************************)
EXTENDS Integers, Sequences, FiniteSets, TLC

\* ---------------------------------------------------------------- bounds
MaxRaw == 3            \* raw documents ever stored (ObjectIds handed out)
FlushSize == 2         \* stands for the batch threshold 1000 of the writers
PageSize == 1          \* stands for batch_size = 500 of the page loop
Procs == {1, 2}        \* processes that may run the unification stage
Establishments == {1, 2}

\* --------------------------------------------------------------- values
NoId == 0              \* review.get('reviewId') is None / reviewUrl is ""
NL == "\n"              \* the line separator, one token of a text
NoText == <<>>         \* a text field that is None or '' (both falsy)
\* a text is a sequence of tokens (words and line separators)
Hello == <<"hello">>
Merhaba == <<"merhaba">>
Tesekkur == <<"tesekkur", "ederim">>

\* what the scraping actor returns for one establishment (processed lists)
G1 == [review_id |-> 5, text |-> Tesekkur, responseFromOwnerText |-> Merhaba]
G2 == [review_id |-> NoId, text |-> Hello, responseFromOwnerText |-> NoText]
T1 == [review_id |-> 7, reviewLanguage |-> "tr", reviewHeadline |-> Merhaba,
       reviewBody |-> Tesekkur]
GoogleLists == { <<G1>>, <<G1, G2>> }
TrustpilotLists == { <<T1>> }

\* establishment_ids argument of a stage: {} is None (no filter)
Filters == {{}, {1}}

VARIABLES
  google,                \* db.google
  trustpilot,            \* db.trustpilot
  next_oid,              \* next ObjectId the driver hands out
  unified_reviews,       \* db.unified_reviews
  pc,                    \* position of each process in unify_reviews_incremental
  existing_unified_ids,  \* local of unify_reviews_incremental
  query_filter,          \* establishment_ids of the running call
  cursor,                \* _id of the last document the open cursor returned
  reviews_to_insert,     \* local buffer of unify_reviews_incremental
  unified_count,         \* local counter / return value
  insert_errors,         \* "Error inserting batch" lines logged by the run
  result,                \* what OperationsController.unify_reviews reported
  last_run,              \* history: the last unification call that ended
  ls_unified_reviews,    \* db.ls_unified_reviews
  ls_pc,                 \* position in standardize_reviews_incremental
  existing_ls_ids,       \* local of standardize_reviews_incremental
  ls_filter,             \* establishment_ids of the running call
  total_reviews_to_process,
  processed_count,
  unified_reviews_batch, \* the page fetched with skip/limit
  page_pos,              \* documents of the page already iterated
  ls_reviews_to_insert,  \* reviews_to_insert of the standardization stage
  translation_cache,     \* self.translation_cache of the DatabaseManager
  external_calls,        \* identities sent to the external translator by the run
  ls_fetch_failed,       \* distinct("_id") raised in the current/last call
  ls_interrupts,         \* where KeyboardInterrupt was raised in the current/last call
  ls_result,             \* what OperationsController.standardize_reviews reported
  enriched_reviews,      \* db.enriched_reviews
  en_pc,                 \* position in process_reviews
  en_reviews,            \* reviews, local of process_reviews
  enrichment_data,       \* local of process_reviews: str(_id) -> attributes
  en_groups,             \* attribute_groups of the running call
  en_incremental,        \* incremental of the running call
  en_pos,                \* reviews of the current family already sent
  en_result,             \* what process_reviews returned
  en_prompt,             \* the prompt of the last extraction call of the run
  en_response,           \* what the external model did at that call: the
                         \* outcome of generate_content and the text
  val_pc,                \* a call of a validator: "idle", "called", "returned"
  val_family,            \* the family whose validator is called
  val_response_data,     \* response_data, the argument of the validator
  val_validated,         \* validated_data, what the validator returned
  call_pc,               \* position in a call of _call_gemini_batch
  call_prompt,           \* prompt, the argument of that call
  call_response,         \* what the external model does when it is called
  call_sent,             \* the prompts generate_content was called with
  call_tried,            \* the parses tried, in order
  call_result,           \* what _call_gemini_batch returned
  tr_log,                \* the calls of _translate_text and of the record
                         \* standardizers made on one DatabaseManager
  establishments,        \* db.establishments: _id -> document
  score_clock,           \* datetime.utcnow(), counted in scoring runs
  last_scored,           \* history: how often each establishment was
                         \* scored since the review stores last changed
  score_call,            \* one call of a scoring function and its result
  files,                 \* the token and configuration files that exist
  controller,            \* what OperationsController.initialize returned
  processor,             \* the ReviewEnrichmentProcessor constructed
  cmd                    \* the combined command running and its stages

unifyVars == <<pc, existing_unified_ids, query_filter, cursor,
               reviews_to_insert, unified_count, insert_errors, result,
               last_run>>
rawVars == <<google, trustpilot, next_oid>>
unifyFrame == <<rawVars, unified_reviews, unifyVars>>
lsVars == <<ls_unified_reviews, ls_pc, existing_ls_ids, ls_filter,
            total_reviews_to_process, processed_count, unified_reviews_batch,
            page_pos, ls_reviews_to_insert, translation_cache, external_calls,
            ls_fetch_failed, ls_interrupts, ls_result>>
enVars == <<enriched_reviews, en_pc, en_reviews, enrichment_data,
            en_groups, en_incremental, en_pos, en_result, en_prompt,
            en_response>>
valVars == <<val_pc, val_family, val_response_data, val_validated>>
callVars == <<call_pc, call_prompt, call_response, call_sent, call_tried,
              call_result>>
trVars == <<tr_log>>
scoreVars == <<establishments, score_clock, last_scored, score_call>>
runVars == <<files, controller, processor, cmd>>
fnVars == <<valVars, callVars, trVars, scoreVars, runVars>>
notUnify == <<lsVars, enVars, fnVars>>
notLs == <<unifyFrame, enVars, fnVars>>
notEnrich == <<unifyFrame, lsVars, fnVars>>
vars == <<google, trustpilot, next_oid, unified_reviews, pc,
          existing_unified_ids, query_filter, cursor, reviews_to_insert,
          unified_count, insert_errors, result, last_run, lsVars, enVars,
          fnVars>>

\* ------------------------------------------------------------- helpers
Ids(coll) == {d._id : d \in coll}
SeqIds(docs) == {docs[i]._id : i \in 1..Len(docs)}
SeqDocs(docs) == {docs[i] : i \in 1..Len(docs)}
ZeroCount == [google |-> 0, trustpilot |-> 0]
NoRun == [clean |-> FALSE, filter |-> {}]

\* datetime.utcnow() of a mapping call, abstracted to the run that took it
utcnow(p) == p

\* ------------------------------------------------------------- scraping
\* the document save_google_reviews stores for one scraped review
GoogleDoc(oid, establishment_id, review) ==
  [_id |-> oid,
   review_id |-> review.review_id,
   establishment_id |-> establishment_id,
   platform |-> "google",
   text |-> review.text,
   responseFromOwnerText |-> review.responseFromOwnerText]

\* the document save_trustpilot_reviews stores for one scraped review
TrustpilotDoc(oid, establishment_id, review) ==
  [_id |-> oid,
   review_id |-> review.review_id,
   establishment_id |-> establishment_id,
   platform |-> "trustpilot",
   reviewLanguage |-> review.reviewLanguage,
   reviewHeadline |-> review.reviewHeadline,
   reviewBody |-> review.reviewBody]

\* save_google_reviews: tag every review and insert_many into db.google;
\* the driver gives each document a fresh ObjectId
SaveGoogleReviews(establishment_id, reviews) ==
  /\ Len(reviews) > 0
  /\ next_oid + Len(reviews) - 1 <= MaxRaw
  /\ \A p \in Procs : pc[p] = "idle"
  /\ ls_pc = "idle"
  /\ google' = google \cup
       { GoogleDoc(next_oid + i - 1, establishment_id, reviews[i])
         : i \in 1..Len(reviews) }
  /\ next_oid' = next_oid + Len(reviews)
  /\ last_run' = NoRun
  /\ UNCHANGED notUnify
  /\ UNCHANGED <<trustpilot, unified_reviews, pc, existing_unified_ids,
                 query_filter, cursor, reviews_to_insert, unified_count,
                 insert_errors, result>>

SaveTrustpilotReviews(establishment_id, reviews) ==
  /\ Len(reviews) > 0
  /\ next_oid + Len(reviews) - 1 <= MaxRaw
  /\ \A p \in Procs : pc[p] = "idle"
  /\ ls_pc = "idle"
  /\ trustpilot' = trustpilot \cup
       { TrustpilotDoc(next_oid + i - 1, establishment_id, reviews[i])
         : i \in 1..Len(reviews) }
  /\ next_oid' = next_oid + Len(reviews)
  /\ last_run' = NoRun
  /\ UNCHANGED notUnify
  /\ UNCHANGED <<google, unified_reviews, pc, existing_unified_ids,
                 query_filter, cursor, reviews_to_insert, unified_count,
                 insert_errors, result>>

\* -------------------------------------------------------------- mapper
\* an identity that takes the mapping time in
StandardizeGoogleReview_Clock(review, now) ==
  [_id |-> review._id + 10 * now,
   original_review_id |-> review.review_id,
   establishment_id |-> review.establishment_id,
   platform |-> "google",
   title |-> NoText,
   review_text |-> review.text,
   review_language |-> "none",
   response_from_owner_text |-> review.responseFromOwnerText,
   created_at |-> now]

StandardizeGoogleReview(review, now) ==
  [_id |-> review._id,
   original_review_id |-> review.review_id,
   establishment_id |-> review.establishment_id,
   platform |-> "google",
   title |-> NoText,
   review_text |-> review.text,
   review_language |-> "none",
   response_from_owner_text |-> review.responseFromOwnerText,
   created_at |-> now]

\* a mapper that tags every document as a Google review
StandardizeTrustpilotReview_Google(review, now) ==
  [_id |-> review._id,
   original_review_id |-> review.review_id,
   establishment_id |-> review.establishment_id,
   platform |-> "google",
   title |-> review.reviewHeadline,
   review_text |-> review.reviewBody,
   review_language |-> review.reviewLanguage,
   response_from_owner_text |-> NoText,
   created_at |-> now]

StandardizeTrustpilotReview(review, now) ==
  [_id |-> review._id,
   original_review_id |-> review.review_id,
   establishment_id |-> review.establishment_id,
   platform |-> "trustpilot",
   title |-> review.reviewHeadline,
   review_text |-> review.reviewBody,
   review_language |-> review.reviewLanguage,
   response_from_owner_text |-> NoText,
   created_at |-> now]

\* ------------------------------------------------------- store writes
\* an ordered insert: nothing after the first document that fails is written
InsertMany_Ordered(coll, docs, rejected) ==
  coll \cup
    {docs[i] : i \in {j \in 1..Len(docs) :
                       \A k \in 1..j : /\ docs[k]._id \notin rejected
                                       /\ docs[k]._id \notin Ids(coll)}}

\* a write that puts each accepted document in the place of the stored one
InsertMany_Replace(coll, docs, rejected) ==
  LET accepted == {docs[i] : i \in {j \in 1..Len(docs) :
                                     docs[j]._id \notin rejected}}
  IN {d \in coll : \A a \in accepted : a._id # d._id} \cup accepted

\* a write that leaves only the accepted documents in the collection
InsertMany_Truncating(coll, docs, rejected) ==
  {docs[i] : i \in {j \in 1..Len(docs) : docs[j]._id \notin rejected}}

\* insert_many(docs, ordered=False): every document is attempted; one whose
\* _id is already in the collection (E11000) or that the store rejects is
\* not written, all others are.
InsertMany(coll, docs, rejected) ==
  coll \cup {d \in SeqDocs(docs) : d._id \notin rejected /\ d._id \notin Ids(coll)}

\* ... and the call raises when at least one document was not written
InsertManyRaises(coll, docs, rejected) ==
  \E d \in SeqDocs(docs) : d._id \in rejected \/ d._id \in Ids(coll)

\* find(query_filter) on a raw collection
Find(coll, filter) ==
  {d \in coll : filter = {} \/ d.establishment_id \in filter}

\* the document the cursor returns next (natural order), if any
HasNext(coll, filter, after) == \E d \in Find(coll, filter) : d._id > after
NextDoc(coll, filter, after) ==
  CHOOSE d \in Find(coll, filter) :
    /\ d._id > after
    /\ \A e \in Find(coll, filter) : e._id > after => d._id <= e._id

\* --------------------------------------------------- unification stage
\* a ledger that is not read from the store
GetExistingUnifiedReviewIds_Empty == {}

\* get_existing_unified_review_ids
GetExistingUnifiedReviewIds == Ids(unified_reviews)

\* OperationsController.unify_reviews -> unify_reviews_incremental, up to
\* the opening of the Google cursor; the existing-identity fetch succeeded
UnifyStart(p, establishment_ids) ==
  /\ pc[p] = "idle"
  /\ ls_pc = "idle"
  /\ pc' = [pc EXCEPT ![p] = "google"]
  /\ existing_unified_ids' =
       [existing_unified_ids EXCEPT ![p] = GetExistingUnifiedReviewIds]
  /\ query_filter' = [query_filter EXCEPT ![p] = establishment_ids]
  /\ cursor' = [cursor EXCEPT ![p] = 0]
  /\ reviews_to_insert' = [reviews_to_insert EXCEPT ![p] = <<>>]
  /\ unified_count' = [unified_count EXCEPT ![p] = ZeroCount]
  /\ insert_errors' = [insert_errors EXCEPT ![p] = 0]
  /\ result' = [result EXCEPT ![p] = "running"]
  /\ UNCHANGED notUnify
  /\ UNCHANGED <<google, trustpilot, next_oid, unified_reviews, last_run>>

\* distinct("_id") raises: nothing catches it in unify_reviews_incremental,
\* unify_reviews logs it and returns False
UnifyFetchFails(p, establishment_ids) ==
  /\ pc[p] = "idle"
  /\ ls_pc = "idle"
  /\ result' = [result EXCEPT ![p] = "failed"]
  /\ query_filter' = [query_filter EXCEPT ![p] = {}]
  /\ unified_count' = [unified_count EXCEPT ![p] = ZeroCount]
  /\ insert_errors' = [insert_errors EXCEPT ![p] = 0]
  /\ last_run' = NoRun
  /\ UNCHANGED notUnify
  /\ UNCHANGED <<google, trustpilot, next_oid, unified_reviews, pc,
                 existing_unified_ids, cursor, reviews_to_insert>>

\* Google loop, "continue": the document is already unified
GoogleSkip(p) ==
  /\ pc[p] = "google"
  /\ HasNext(google, query_filter[p], cursor[p])
  /\ LET review == NextDoc(google, query_filter[p], cursor[p]) IN
       /\ review._id \in existing_unified_ids[p]
       /\ cursor' = [cursor EXCEPT ![p] = review._id]
  /\ UNCHANGED notUnify
  /\ UNCHANGED <<google, trustpilot, next_oid, unified_reviews, pc,
                 existing_unified_ids, query_filter, reviews_to_insert,
                 unified_count, insert_errors, result, last_run>>

\* Google loop: map, buffer, count; a full buffer is flushed next
GoogleMap(p) ==
  /\ pc[p] = "google"
  /\ HasNext(google, query_filter[p], cursor[p])
  /\ LET review == NextDoc(google, query_filter[p], cursor[p])
         unified_review == StandardizeGoogleReview(review, utcnow(p))
         buffer == Append(reviews_to_insert[p], unified_review) IN
       /\ review._id \notin existing_unified_ids[p]
       /\ cursor' = [cursor EXCEPT ![p] = review._id]
       /\ reviews_to_insert' = [reviews_to_insert EXCEPT ![p] = buffer]
       /\ unified_count' =
            [unified_count EXCEPT ![p].google = unified_count[p].google + 1]
       /\ pc' = [pc EXCEPT ![p] =
                   IF Len(buffer) >= FlushSize THEN "google_flush" ELSE "google"]
  /\ UNCHANGED notUnify
  /\ UNCHANGED <<google, trustpilot, next_oid, unified_reviews,
                 existing_unified_ids, query_filter, insert_errors, result,
                 last_run>>

\* a write whose exception is not caught inside the loop: the run ends
FlushBatch_Abort(p, rejected, here, back) ==
  /\ pc[p] = here
  /\ unified_reviews' = InsertMany(unified_reviews, reviews_to_insert[p], rejected)
  /\ IF InsertManyRaises(unified_reviews, reviews_to_insert[p], rejected)
     THEN /\ pc' = [pc EXCEPT ![p] = "idle"]
          /\ result' = [result EXCEPT ![p] = "failed"]
          /\ insert_errors' = [insert_errors EXCEPT ![p] = 1]
          /\ UNCHANGED reviews_to_insert
     ELSE /\ pc' = [pc EXCEPT ![p] = back]
          /\ reviews_to_insert' = [reviews_to_insert EXCEPT ![p] = <<>>]
          /\ UNCHANGED <<result, insert_errors>>
  /\ UNCHANGED notUnify
  /\ UNCHANGED <<google, trustpilot, next_oid, existing_unified_ids,
                 query_filter, cursor, unified_count, last_run>>

\* the write of a full buffer inside a loop: insert_many, the exception (if
\* any) is logged, the buffer is cleared and the loop goes on
FlushBatch(p, rejected, here, back) ==
  /\ pc[p] = here
  /\ unified_reviews' = InsertMany(unified_reviews, reviews_to_insert[p], rejected)
  /\ insert_errors' =
       [insert_errors EXCEPT ![p] =
          IF InsertManyRaises(unified_reviews, reviews_to_insert[p], rejected)
          THEN 1 ELSE insert_errors[p]]
  /\ reviews_to_insert' = [reviews_to_insert EXCEPT ![p] = <<>>]
  /\ pc' = [pc EXCEPT ![p] = back]
  /\ UNCHANGED notUnify
  /\ UNCHANGED <<google, trustpilot, next_oid, existing_unified_ids,
                 query_filter, cursor, unified_count, result, last_run>>

GoogleFlush(p, rejected) == FlushBatch(p, rejected, "google_flush", "google")

\* the Google cursor is exhausted: open the Trustpilot cursor
GoogleDone(p) ==
  /\ pc[p] = "google"
  /\ ~HasNext(google, query_filter[p], cursor[p])
  /\ pc' = [pc EXCEPT ![p] = "trustpilot"]
  /\ cursor' = [cursor EXCEPT ![p] = 0]
  /\ UNCHANGED notUnify
  /\ UNCHANGED <<google, trustpilot, next_oid, unified_reviews,
                 existing_unified_ids, query_filter, reviews_to_insert,
                 unified_count, insert_errors, result, last_run>>

TrustpilotSkip(p) ==
  /\ pc[p] = "trustpilot"
  /\ HasNext(trustpilot, query_filter[p], cursor[p])
  /\ LET review == NextDoc(trustpilot, query_filter[p], cursor[p]) IN
       /\ review._id \in existing_unified_ids[p]
       /\ cursor' = [cursor EXCEPT ![p] = review._id]
  /\ UNCHANGED notUnify
  /\ UNCHANGED <<google, trustpilot, next_oid, unified_reviews, pc,
                 existing_unified_ids, query_filter, reviews_to_insert,
                 unified_count, insert_errors, result, last_run>>

TrustpilotMap(p) ==
  /\ pc[p] = "trustpilot"
  /\ HasNext(trustpilot, query_filter[p], cursor[p])
  /\ LET review == NextDoc(trustpilot, query_filter[p], cursor[p])
         unified_review == StandardizeTrustpilotReview(review, utcnow(p))
         buffer == Append(reviews_to_insert[p], unified_review) IN
       /\ review._id \notin existing_unified_ids[p]
       /\ cursor' = [cursor EXCEPT ![p] = review._id]
       /\ reviews_to_insert' = [reviews_to_insert EXCEPT ![p] = buffer]
       /\ unified_count' =
            [unified_count EXCEPT ![p].trustpilot = unified_count[p].trustpilot + 1]
       /\ pc' = [pc EXCEPT ![p] =
                   IF Len(buffer) >= FlushSize THEN "trustpilot_flush"
                   ELSE "trustpilot"]
  /\ UNCHANGED notUnify
  /\ UNCHANGED <<google, trustpilot, next_oid, unified_reviews,
                 existing_unified_ids, query_filter, insert_errors, result,
                 last_run>>

TrustpilotFlush(p, rejected) ==
  FlushBatch(p, rejected, "trustpilot_flush", "trustpilot")

\* the Trustpilot cursor is exhausted: "Insert remaining reviews", log the
\* totals, return unified_count; unify_reviews returns True
UnifyFinish(p, rejected) ==
  /\ pc[p] = "trustpilot"
  /\ ~HasNext(trustpilot, query_filter[p], cursor[p])
  /\ LET raised == /\ reviews_to_insert[p] # <<>>
                   /\ InsertManyRaises(unified_reviews, reviews_to_insert[p],
                                       rejected)
         errors == IF raised THEN 1 ELSE insert_errors[p] IN
       /\ unified_reviews' =
            InsertMany(unified_reviews, reviews_to_insert[p], rejected)
       /\ insert_errors' = [insert_errors EXCEPT ![p] = 0]
       /\ last_run' = [clean |-> errors = 0, filter |-> query_filter[p]]
  /\ pc' = [pc EXCEPT ![p] = "idle"]
  /\ result' = [result EXCEPT ![p] = "ok"]
  /\ existing_unified_ids' = [existing_unified_ids EXCEPT ![p] = {}]
  /\ cursor' = [cursor EXCEPT ![p] = 0]
  /\ reviews_to_insert' = [reviews_to_insert EXCEPT ![p] = <<>>]
  /\ UNCHANGED notUnify
  /\ UNCHANGED <<google, trustpilot, next_oid, query_filter, unified_count>>

\* KeyboardInterrupt inside unify_reviews_incremental: it is not an
\* Exception, so no handler of the stage or of unify_reviews catches it;
\* the locals (the buffer with them) are gone
UnifyInterrupt(p) ==
  /\ pc[p] # "idle"
  /\ pc' = [pc EXCEPT ![p] = "idle"]
  /\ result' = [result EXCEPT ![p] = "interrupted"]
  /\ last_run' = NoRun
  /\ existing_unified_ids' = [existing_unified_ids EXCEPT ![p] = {}]
  /\ cursor' = [cursor EXCEPT ![p] = 0]
  /\ reviews_to_insert' = [reviews_to_insert EXCEPT ![p] = <<>>]
  /\ unified_count' = [unified_count EXCEPT ![p] = ZeroCount]
  /\ query_filter' = [query_filter EXCEPT ![p] = {}]
  /\ insert_errors' = [insert_errors EXCEPT ![p] = 0]
  /\ UNCHANGED notUnify
  /\ UNCHANGED <<google, trustpilot, next_oid, unified_reviews>>

\* outcomes of one insert_many: the ids the store does not accept
Rejections(p) == SUBSET SeqIds(reviews_to_insert[p])

\* ------------------------------------------- language standardization
LangOf(text) == IF text \in {Merhaba, Tesekkur} THEN "tr" ELSE "en"
CharLen(text) == IF text = NoText THEN 0 ELSE 5 * Len(text)

\* the external translator's answer, token by token
EnglishWord(w) ==
  CASE w = "merhaba" -> "hello"
    [] w = "tesekkur" -> "thank"
    [] w = "ederim" -> "you"
    [] OTHER -> w
English(text) == [i \in 1..Len(text) |-> EnglishWord(text[i])]

\* str.strip() on a token sequence: line separators are whitespace
RECURSIVE LStrip(_)
LStrip(t) == IF t # <<>> /\ Head(t) = NL THEN LStrip(Tail(t)) ELSE t
RECURSIVE RStrip(_)
RStrip(t) ==
  IF t # <<>> /\ t[Len(t)] = NL THEN RStrip(SubSeq(t, 1, Len(t) - 1)) ELSE t
Strip(t) == RStrip(LStrip(t))

\* _detect_language: None for empty or short text and when langdetect
\* raises; detector is what langdetect does: it returns a language code
\* ("ok"), raises an Exception ("error") or a KeyboardInterrupt arrives in
\* it ("interrupt"); the bare except catches both
DetectorCalled(text) == ~(text = NoText \/ CharLen(Strip(text)) < 5)
DetectLanguage(text, detector) ==
  IF ~DetectorCalled(text) THEN "none"
  ELSE IF detector \in {"error", "interrupt"} THEN "none"
  ELSE LangOf(text)

\* _translate_text: [out, cache, called, looked]; called: generate_content
\* was invoked; looked: the cache was consulted
Cached(cache, text) == \E e \in cache : e[1] = text
CacheGet(cache, text) == (CHOOSE e \in cache : e[1] = text)[2]

\* a translation that never looks into the cache
TranslateText_Uncached(text, cache, translator) ==
  IF text = NoText \/ Strip(text) = NoText
    THEN [out |-> text, cache |-> cache, called |-> FALSE, looked |-> FALSE]
  ELSE IF translator = "ok"
    THEN [out |-> Strip(English(text)),
          cache |-> {e \in cache : e[1] # text}
                      \cup {<<text, Strip(English(text))>>},
          called |-> TRUE, looked |-> FALSE]
  ELSE [out |-> text, cache |-> cache, called |-> TRUE, looked |-> FALSE]

\* a translation that stores the text it failed on
TranslateText_CachesFailure(text, cache, translator) ==
  IF text = NoText \/ Strip(text) = NoText
    THEN [out |-> text, cache |-> cache, called |-> FALSE, looked |-> FALSE]
  ELSE IF Cached(cache, text)
    THEN [out |-> CacheGet(cache, text), cache |-> cache, called |-> FALSE,
          looked |-> TRUE]
  ELSE IF translator = "ok"
    THEN [out |-> Strip(English(text)),
          cache |-> cache \cup {<<text, Strip(English(text))>>},
          called |-> TRUE, looked |-> TRUE]
  ELSE [out |-> text, cache |-> cache \cup {<<text, text>>},
        called |-> TRUE, looked |-> TRUE]

\* translator "nokey": tokens/google_api_key.txt is not found
TranslateText(text, cache, translator) ==
  IF text = NoText \/ Strip(text) = NoText
    THEN [out |-> text, cache |-> cache, called |-> FALSE, looked |-> FALSE]
  ELSE IF Cached(cache, text)
    THEN [out |-> CacheGet(cache, text), cache |-> cache, called |-> FALSE,
          looked |-> TRUE]
  ELSE IF translator = "nokey"
    THEN [out |-> text, cache |-> cache, called |-> FALSE, looked |-> TRUE]
  ELSE IF translator = "ok"
    THEN [out |-> Strip(English(text)),
          cache |-> cache \cup {<<text, Strip(English(text))>>},
          called |-> TRUE, looked |-> TRUE]
  ELSE [out |-> text, cache |-> cache, called |-> TRUE, looked |-> TRUE]

\* str.split('\n', 1)
HasNL(t) == \E i \in 1..Len(t) : t[i] = NL
FirstNL(t) == CHOOSE i \in 1..Len(t) : t[i] = NL /\ \A j \in 1..(i - 1) : t[j] # NL
BeforeNL(t) == SubSeq(t, 1, FirstNL(t) - 1)
AfterNL(t) == SubSeq(t, FirstNL(t) + 1, Len(t))

\* a standardizer that translates every owner response
StandardizeGoogleReviewLs_Always(review, detector, translator, cache) ==
  LET response_text == review.response_from_owner_text
      tr == TranslateText(response_text, cache, translator)
  IN [doc |-> [_id |-> review._id,
               original_review_id |-> review.original_review_id,
               establishment_id |-> review.establishment_id,
               platform |-> review.platform,
               title |-> review.title,
               review_text |-> review.review_text,
               review_language |-> review.review_language,
               response_from_owner_text |-> tr.out,
               response_from_owner_language |->
                 DetectLanguage(response_text, detector),
               created_at |-> review.created_at],
      cache |-> tr.cache, called |-> tr.called]

\* _standardize_google_review_ls: [doc, cache, called]
StandardizeGoogleReviewLs(review, detector, translator, cache) ==
  LET response_text == review.response_from_owner_text
      response_language == DetectLanguage(response_text, detector)
      needed == /\ response_text # NoText
                /\ response_language # "none"
                /\ response_language # "en"
      tr == TranslateText(response_text, cache, translator)
      base == [_id |-> review._id,
               original_review_id |-> review.original_review_id,
               establishment_id |-> review.establishment_id,
               platform |-> review.platform,
               title |-> review.title,
               review_text |-> review.review_text,
               review_language |-> review.review_language,
               response_from_owner_text |-> review.response_from_owner_text,
               response_from_owner_language |-> response_language,
               created_at |-> review.created_at]
  IN IF needed
     THEN [doc |-> [base EXCEPT !.response_from_owner_text = tr.out],
           cache |-> tr.cache, called |-> tr.called]
     ELSE [doc |-> base, cache |-> cache, called |-> FALSE]

\* _standardize_trustpilot_review_ls: [doc, cache, called]
StandardizeTrustpilotReviewLs(review, detector, translator, cache) ==
  LET response_text == review.response_from_owner_text
      response_language == DetectLanguage(response_text, detector)
      review_language == review.review_language
      title == review.title
      review_text == review.review_text
      combined_text == Strip(title \o <<NL>> \o review_text)
      content == /\ review_language # "none"
                 /\ review_language # "en"
                 /\ combined_text # <<>>
      tr1 == IF content THEN TranslateText(combined_text, cache, translator)
             ELSE [out |-> <<>>, cache |-> cache, called |-> FALSE]
      translated_content == tr1.out
      split == title # NoText /\ HasNL(translated_content)
      needed == /\ response_text # NoText
                /\ response_language # "none"
                /\ response_language # "en"
      tr2 == IF needed THEN TranslateText(response_text, tr1.cache, translator)
             ELSE [out |-> response_text, cache |-> tr1.cache, called |-> FALSE]
  IN [doc |->
        [_id |-> review._id,
         original_review_id |-> review.original_review_id,
         establishment_id |-> review.establishment_id,
         platform |-> review.platform,
         title |-> IF content /\ split THEN BeforeNL(translated_content)
                   ELSE title,
         review_text |-> IF ~content THEN review_text
                         ELSE IF split THEN AfterNL(translated_content)
                         ELSE translated_content,
         review_language |-> review_language,
         response_from_owner_text |-> tr2.out,
         response_from_owner_language |-> response_language,
         created_at |-> review.created_at],
      cache |-> tr2.cache,
      called |-> tr1.called \/ tr2.called]

\* find(query_filter).skip(skip).limit(limit) in natural order
Min(a, b) == IF a <= b THEN a ELSE b
Rank(d, S) == Cardinality({e \in S : e._id < d._id}) + 1
Page(S, skip, limit) ==
  IF Cardinality(S) <= skip THEN <<>>
  ELSE [i \in 1..Min(limit, Cardinality(S) - skip) |->
          CHOOSE d \in S : Rank(d, S) = skip + i]

\* get_existing_ls_unified_review_ids: a failing distinct() is swallowed by
\* the bare except and an empty set is returned
GetExistingLsUnifiedReviewIds(fetch) ==
  IF fetch = "ok" THEN Ids(ls_unified_reviews) ELSE {}

\* standardize_reviews -> standardize_reviews_incremental up to the page loop
LsStart(establishment_ids, fetch) ==
  /\ ls_pc = "idle"
  /\ \A p \in Procs : pc[p] = "idle"
  /\ ls_pc' = "page"
  /\ existing_ls_ids' = GetExistingLsUnifiedReviewIds(fetch)
  /\ ls_filter' = establishment_ids
  /\ total_reviews_to_process' =
       Cardinality(Find(unified_reviews, establishment_ids))
  /\ processed_count' = 0
  /\ unified_reviews_batch' = <<>>
  /\ page_pos' = 0
  /\ ls_reviews_to_insert' = <<>>
  /\ translation_cache' = {}
  /\ external_calls' = {}
  /\ ls_result' = "running"
  /\ ls_fetch_failed' = (fetch # "ok")
  /\ ls_interrupts' = IF fetch = "interrupt" THEN {"fetch"} ELSE {}
  /\ UNCHANGED <<ls_unified_reviews>>
  /\ UNCHANGED notLs

\* while processed_count < total: fetch the next page
LsFetchPage ==
  /\ ls_pc = "page"
  /\ processed_count < total_reviews_to_process
  /\ LET batch == Page(Find(unified_reviews, ls_filter), processed_count,
                       PageSize) IN
       /\ unified_reviews_batch' = batch
       /\ ls_pc' = IF batch = <<>> THEN "final" ELSE "records"
  /\ page_pos' = 0
  /\ UNCHANGED <<ls_unified_reviews, existing_ls_ids, ls_filter,
                 total_reviews_to_process, processed_count,
                 ls_reviews_to_insert, translation_cache, external_calls,
                 ls_fetch_failed, ls_interrupts, ls_result>>
  /\ UNCHANGED notLs

\* record loop, "continue": already standardized
LsSkip ==
  /\ ls_pc = "records"
  /\ page_pos < Len(unified_reviews_batch)
  /\ unified_reviews_batch[page_pos + 1]._id \in existing_ls_ids
  /\ page_pos' = page_pos + 1
  /\ UNCHANGED <<ls_unified_reviews, ls_pc, existing_ls_ids, ls_filter,
                 total_reviews_to_process, processed_count,
                 unified_reviews_batch, ls_reviews_to_insert,
                 translation_cache, external_calls, ls_fetch_failed, ls_interrupts,
                 ls_result>>
  /\ UNCHANGED notLs

\* record loop: standardize one review and buffer it; the buffer is written
\* inside the loop only when it reaches the threshold
LsStandardize(detector, translator, rejected) ==
  /\ ls_pc = "records"
  /\ page_pos < Len(unified_reviews_batch)
  /\ LET review == unified_reviews_batch[page_pos + 1]
         r == IF review.platform = "google"
              THEN StandardizeGoogleReviewLs(review, detector, translator,
                                             translation_cache)
              ELSE StandardizeTrustpilotReviewLs(review, detector, translator,
                                                 translation_cache)
         buffer == Append(ls_reviews_to_insert, r.doc) IN
       /\ review._id \notin existing_ls_ids
       /\ rejected \subseteq SeqIds(buffer)
       /\ translation_cache' = r.cache
       /\ external_calls' =
            IF r.called THEN external_calls \cup {review._id}
            ELSE external_calls
       /\ IF Len(buffer) >= FlushSize
          THEN /\ ls_unified_reviews' =
                    InsertMany(ls_unified_reviews, buffer, rejected)
               /\ ls_reviews_to_insert' = <<>>
          ELSE /\ rejected = {}
               /\ ls_reviews_to_insert' = buffer
               /\ UNCHANGED ls_unified_reviews
       /\ ls_interrupts' =
            IF detector = "interrupt"
               /\ DetectorCalled(review.response_from_owner_text)
            THEN ls_interrupts \cup {"detect"}
            ELSE ls_interrupts
  /\ page_pos' = page_pos + 1
  /\ UNCHANGED <<ls_pc, existing_ls_ids, ls_filter,
                 total_reviews_to_process, processed_count,
                 unified_reviews_batch, ls_fetch_failed, ls_result>>
  /\ UNCHANGED notLs

\* end of a page: count it and write what is buffered
LsPageEnd(rejected) ==
  /\ ls_pc = "records"
  /\ page_pos = Len(unified_reviews_batch)
  /\ rejected \subseteq SeqIds(ls_reviews_to_insert)
  /\ processed_count' = processed_count + Len(unified_reviews_batch)
  /\ ls_unified_reviews' =
       InsertMany(ls_unified_reviews, ls_reviews_to_insert, rejected)
  /\ ls_reviews_to_insert' = <<>>
  /\ ls_pc' = "page"
  /\ UNCHANGED <<existing_ls_ids, ls_filter, total_reviews_to_process,
                 unified_reviews_batch, page_pos, translation_cache,
                 external_calls, ls_fetch_failed, ls_interrupts, ls_result>>
  /\ UNCHANGED notLs

\* the loop condition fails: final flush, totals, return; the controller
\* returns True
LsFinish(rejected) ==
  /\ \/ ls_pc = "final"
     \/ ls_pc = "page" /\ processed_count >= total_reviews_to_process
  /\ rejected \subseteq SeqIds(ls_reviews_to_insert)
  /\ ls_unified_reviews' =
       InsertMany(ls_unified_reviews, ls_reviews_to_insert, rejected)
  /\ ls_pc' = "idle"
  /\ ls_result' = "ok"
  /\ existing_ls_ids' = {}
  /\ unified_reviews_batch' = <<>>
  /\ page_pos' = 0
  /\ ls_reviews_to_insert' = <<>>
  /\ processed_count' = 0
  /\ total_reviews_to_process' = 0
  /\ ls_filter' = {}
  /\ translation_cache' = {}
  /\ external_calls' = {}
  /\ UNCHANGED <<ls_fetch_failed, ls_interrupts>>
  /\ UNCHANGED notLs

\* except KeyboardInterrupt: write what is pending (errors ignored), re-raise
LsInterrupt(rejected) ==
  /\ ls_pc \in {"page", "records", "final"}
  /\ rejected \subseteq SeqIds(ls_reviews_to_insert)
  /\ ls_unified_reviews' =
       InsertMany(ls_unified_reviews, ls_reviews_to_insert, rejected)
  /\ ls_pc' = "idle"
  /\ ls_result' = "interrupted"
  /\ existing_ls_ids' = {}
  /\ unified_reviews_batch' = <<>>
  /\ page_pos' = 0
  /\ ls_reviews_to_insert' = <<>>
  /\ processed_count' = 0
  /\ total_reviews_to_process' = 0
  /\ ls_filter' = {}
  /\ translation_cache' = {}
  /\ external_calls' = {}
  /\ ls_interrupts' = ls_interrupts \cup {"loop"}
  /\ UNCHANGED ls_fetch_failed
  /\ UNCHANGED notLs

InitLs ==
  /\ ls_unified_reviews = {}
  /\ ls_pc = "idle"
  /\ existing_ls_ids = {}
  /\ ls_filter = {}
  /\ total_reviews_to_process = 0
  /\ processed_count = 0
  /\ unified_reviews_batch = <<>>
  /\ page_pos = 0
  /\ ls_reviews_to_insert = <<>>
  /\ translation_cache = {}
  /\ external_calls = {}
  /\ ls_fetch_failed = FALSE
  /\ ls_interrupts = {}
  /\ ls_result = "none"

\* ----------------------------------------------------------- enrichment
MIN_REVIEW_LENGTH == 10
BatchSize == 1         \* stands for processing.batch_size = 30
\* the enabled attributes of the configuration (one sentiment attribute
\* batch: no more than sentiment_batch_size of them are enabled)
SentimentAttributes == {"staff_satisfaction"}
ResponseAttributes == {"has_constructive_response", "has_no_threat"}
AllGroups == {"sentiment", "complaint", "response"}

\* str(review['_id']) and ObjectId(review_id)
Str(oid) == <<"oid", oid>>
ObjectId(review_id) == review_id[2]

\* JSON values of a model answer: an integer or an object
JInt(n) == [kind |-> "int", int |-> n]
JDict(f) == [kind |-> "dict", dict |-> f]
\* true/false (json.loads gives a bool, which compares as 1/0), a string and
\* a number with a fraction
JBool(b) == [kind |-> "bool", int |-> IF b THEN 1 ELSE 0]
JStr(t) == [kind |-> "str", str |-> t]
JFloat(whole, tenths) == [kind |-> "float", whole |-> whole, tenths |-> tenths]
\* isinstance(value, int): bool is a subclass of int
IsInstanceInt(value) == value.kind \in {"int", "bool"}

\* {} and dict.update
EmptyDict == [k \in {} |-> 0]
Update(d, u) ==
  [k \in DOMAIN d \cup DOMAIN u |-> IF k \in DOMAIN u THEN u[k] ELSE d[k]]

\* _get_review_content_length: len((title + " " + review_text).strip())
GetReviewContentLength(review) ==
  IF review.review_text # NoText
  THEN IF review.title # NoText
       THEN CharLen(review.title) + 1 + CharLen(review.review_text)
       ELSE CharLen(review.review_text)
  ELSE CharLen(review.title)

\* _calculate_basic_fields
CalculateBasicFields(review) ==
  [has_response |-> IF review.response_from_owner_text # NoText THEN 1 ELSE 0,
   review_length |-> GetReviewContentLength(review)]

\* a collection as the list find() returns (natural order)
InIdOrder(S) == Page(S, 0, Cardinality(S))

\* _get_reviews_to_process (no date filter)
GetReviewsToProcess(establishment_ids, incr) ==
  LET found == Find(ls_unified_reviews, establishment_ids)
      processed_ids == Ids(enriched_reviews)
      unprocessed == IF incr THEN {r \in found : r._id \notin processed_ids}
                     ELSE found
  IN InIdOrder({r \in unprocessed :
                  GetReviewContentLength(r) >= MIN_REVIEW_LENGTH})

\* MAX_TOKENS = int(1_000_000 * 0.70)
MAX_TOKENS == 700000

\* an estimate that rounds up
EstimateTokenCount_Up(text_len) == (text_len + 3) \div 4

\* _estimate_token_count: len(text) // 4
EstimateTokenCount(text_len) == text_len \div 4

\* a response text is a sequence of tokens: the code fence with and
\* without the word json, the braces, "e" for the entries of an object, "w" for a word of prose and
\* NL for white space
FenceJson == "fence_json"
Fence == "fence"

\* a response text taken as it is
StripFence_Kept(text) == text

\* response_text after strip(), the removal of a leading and of a trailing
\* code fence, and strip()
StripFence(text) ==
  LET stripped == Strip(text)
      opened == IF stripped # <<>> /\ Head(stripped) \in {FenceJson, Fence}
                THEN Tail(stripped) ELSE stripped
      closed == IF opened # <<>> /\ opened[Len(opened)] = Fence
                THEN SubSeq(opened, 1, Len(opened) - 1) ELSE opened
  IN Strip(closed)

\* opening minus closing braces among the first i tokens
Depth(t, i) ==
  Cardinality({j \in 1..i : t[j] = "{"}) -
  Cardinality({j \in 1..i : t[j] = "}"})

\* the texts json.loads accepts and yields a dict for: one object, of
\* entries and nested objects, white space anywhere
IsObject(text) ==
  LET t == SelectSeq(text, LAMBDA w : w # NL)
  IN /\ Len(t) >= 2
     /\ \A j \in 1..Len(t) : t[j] \in {"{", "}", "e"}
     /\ t[1] = "{"
     /\ \A j \in 1..(Len(t) - 1) : Depth(t, j) >= 1
     /\ Depth(t, Len(t)) = 0

\* a parser that accepts every text
JsonLoads_Lenient(text, data) == [ok |-> TRUE, value |-> data]

\* json.loads: data is what the entries of the response decode to;
\* ok is FALSE for json.JSONDecodeError
JsonLoads(text, data) ==
  IF IsObject(text)
  THEN [ok |-> TRUE,
        value |-> IF \E j \in 1..Len(text) : text[j] = "e" THEN data
                  ELSE EmptyDict]
  ELSE [ok |-> FALSE, value |-> EmptyDict]

\* re.search of an opening brace, anything, a closing brace (DOTALL), and
\* group(): from the first opening
\* brace to the last closing brace, <<>> when there is no match
ReSearch(text) ==
  LET opening == {j \in 1..Len(text) : text[j] = "{"}
      closing == {j \in 1..Len(text) : text[j] = "}"}
  IN IF opening = {} \/ closing = {} THEN <<>>
     ELSE LET first == CHOOSE j \in opening : \A k \in opening : j <= k
              last == CHOOSE j \in closing : \A k \in closing : k <= j
          IN IF first < last THEN SubSeq(text, first, last) ELSE <<>>

\* the try/except json.JSONDecodeError of _call_gemini_batch: the stage
\* that produced the result, and the result
ParseResponse(response) ==
  LET strict == JsonLoads(StripFence(response.text), response.data)
      json_match == ReSearch(response.text)
      recovered == JsonLoads(json_match, response.data)
  IN IF strict.ok THEN [stage |-> "strict", result |-> strict.value]
     ELSE IF json_match # <<>> /\ recovered.ok
          THEN [stage |-> "fallback", result |-> recovered.value]
          ELSE [stage |-> "none", result |-> EmptyDict]

\* whether _call_gemini_batch calls generate_content(prompt)
WithinBudget(prompt) == ~(EstimateTokenCount(prompt.len) > MAX_TOKENS)

\* _call_gemini_batch: {} when the prompt is over the budget, when
\* generate_content raised, when the response is empty and when both
\* parses failed
CallGeminiBatch(prompt, response) ==
  IF ~WithinBudget(prompt) THEN EmptyDict
  ELSE IF response.status = "raises" THEN EmptyDict
  ELSE IF response.text = <<>> THEN EmptyDict
  ELSE ParseResponse(response).result

\* _validate_sentiment_response; a value that passes is kept as the number
\* it compares equal to (True as 1, False as 0)
ValidSentimentAttributes(attributes, expected_attributes) ==
  IF attributes.kind # "dict" THEN EmptyDict
  ELSE [a \in {n \in DOMAIN attributes.dict :
                 /\ n \in expected_attributes
                 /\ IsInstanceInt(attributes.dict[n])
                 /\ 0 <= attributes.dict[n].int
                 /\ attributes.dict[n].int <= 3}
          |-> attributes.dict[a].int]
ValidateSentimentResponse(response_data, expected_attributes) ==
  [review_id \in {i \in DOMAIN response_data :
                    DOMAIN ValidSentimentAttributes(response_data[i],
                                                    expected_attributes) # {}}
     |-> ValidSentimentAttributes(response_data[review_id],
                                  expected_attributes)]

\* _validate_binary_response
ValidBinaryAttributes(attributes, expected_attributes) ==
  IF IsInstanceInt(attributes)
  THEN IF /\ "is_complaint" \in expected_attributes
          /\ 0 <= attributes.int /\ attributes.int <= 1
       THEN [is_complaint |-> attributes.int]
       ELSE EmptyDict
  ELSE IF attributes.kind = "dict"
  THEN [a \in {n \in DOMAIN attributes.dict :
                 /\ n \in expected_attributes
                 /\ IsInstanceInt(attributes.dict[n])
                 /\ 0 <= attributes.dict[n].int
                 /\ attributes.dict[n].int <= 1}
          |-> attributes.dict[a].int]
  ELSE EmptyDict
ValidateBinaryResponse(response_data, expected_attributes) ==
  [review_id \in {i \in DOMAIN response_data :
                    DOMAIN ValidBinaryAttributes(response_data[i],
                                                 expected_attributes) # {}}
     |-> ValidBinaryAttributes(response_data[review_id], expected_attributes)]

\* for review_id, attr_data in validated_data.items(): ...update(attr_data)
MergeResults(data, validated_data) ==
  [review_id \in DOMAIN data \cup DOMAIN validated_data |->
     IF review_id \notin DOMAIN validated_data THEN data[review_id]
     ELSE IF review_id \notin DOMAIN data THEN validated_data[review_id]
     ELSE Update(data[review_id], validated_data[review_id])]

\* an update that replaces the stored document
UpdateOne_Replace(coll, review, data) ==
  LET review_id == Str(review._id)
      llm == IF review_id \in DOMAIN data THEN data[review_id] ELSE EmptyDict
      update_data == Update(Update(CalculateBasicFields(review), llm),
                            [establishment_id |-> review.establishment_id,
                             platform |-> review.platform])
      oid == ObjectId(review_id)
  IN {d \in coll : d._id # oid} \cup {Update([_id |-> oid], update_data)}

\* one UpdateOne({'_id': ...}, {'$set': update_data}, upsert=True); the
\* time stamps of the update are left out
UpdateOne(coll, review, data) ==
  LET review_id == Str(review._id)
      llm == IF review_id \in DOMAIN data THEN data[review_id] ELSE EmptyDict
      update_data == Update(Update(CalculateBasicFields(review), llm),
                            [establishment_id |-> review.establishment_id,
                             platform |-> review.platform])
      oid == ObjectId(review_id)
  IN IF \E d \in coll : d._id = oid
     THEN LET old == CHOOSE d \in coll : d._id = oid
          IN (coll \ {old}) \cup {Update(old, update_data)}
     ELSE coll \cup {Update([_id |-> oid], update_data)}

\* bulk_write (ordered): the first `applied` operations are applied, and
\* the call raises unless that is all of them
RECURSIVE BulkWrite(_, _, _, _)
BulkWrite(coll, revs, data, applied) ==
  IF applied = 0 \/ revs = <<>> THEN coll
  ELSE BulkWrite(UpdateOne(coll, Head(revs), data), Tail(revs), data,
                 applied - 1)

\* an upsert that is put off: the collection is left as it is
UpsertEnrichedReviews_Later(data, revs, applied) == enriched_reviews

\* _upsert_enriched_reviews: the collection after the call
UpsertEnrichedReviews(data, revs, applied) ==
  IF DOMAIN data = {} THEN enriched_reviews
  ELSE BulkWrite(enriched_reviews, revs, data, applied)
UpsertRaises(data, revs, applied) ==
  DOMAIN data # {} /\ applied < Len(revs)

\* the family process_reviews turns to after `family`
AfterSentiment(groups) ==
  IF "complaint" \in groups THEN "complaint" ELSE "upsert"
FirstFamily(groups) ==
  IF "sentiment" \in groups THEN "sentiment" ELSE AfterSentiment(groups)

\* reviews[i:i + batch_size]
Batch(revs, i) == SubSeq(revs, i + 1, Min(i + BatchSize, Len(revs)))

\* _build_sentiment_prompt, _build_complaint_prompt, _build_response_prompt:
\* the family asked about and the "<review_id>: <content>" lines
\* len() of the text of a prompt before its first review, with the
\* configured attributes of the family
SentimentHeaderLen == 250
ComplaintHeaderLen == 87
ResponseHeaderLen == 302
PromptHeaderLen(family) ==
  CASE family = "sentiment" -> SentimentHeaderLen
    [] family = "complaint" -> ComplaintHeaderLen
    [] OTHER -> ResponseHeaderLen

\* len(str(review['_id']))
ReviewIdLen == 24

\* len() of what a prompt holds for one review:
\* "<review_id>: <content>\n", and for the response family
\* "<review_id>:\nReview: <content>\nResponse: <response>\n\n"
PromptEntryLen(family, review) ==
  IF family = "response"
  THEN ReviewIdLen + 2 + 8 + GetReviewContentLength(review) + 1 + 10
       + CharLen(review.response_from_owner_text) + 2
  ELSE ReviewIdLen + 2 + GetReviewContentLength(review) + 1

RECURSIVE PromptEntriesLen(_, _)
PromptEntriesLen(family, batch) ==
  IF batch = <<>> THEN 0
  ELSE PromptEntryLen(family, Head(batch))
       + PromptEntriesLen(family, Tail(batch))

NoPrompt == [family |-> "none", ids |-> {}, len |-> 0]
NoResponse == [status |-> "none", text |-> <<>>]
BuildPrompt(family, batch) ==
  [family |-> family, ids |-> {Str(i) : i \in SeqIds(batch)},
   len |-> PromptHeaderLen(family) + PromptEntriesLen(family, batch)]

EndEnrich(outcome) ==
  /\ en_pc' = "idle"
  /\ en_prompt' = NoPrompt
  /\ en_response' = NoResponse
  /\ en_reviews' = <<>>
  /\ enrichment_data' = EmptyDict
  /\ en_groups' = {}
  /\ en_incremental' = TRUE
  /\ en_pos' = 0
  /\ en_result' = outcome

\* process_reviews up to the first family
EnrichStart(establishment_ids, incr, groups) ==
  /\ en_pc = "idle"
  /\ ls_pc = "idle"
  /\ \A p \in Procs : pc[p] = "idle"
  /\ LET revs == GetReviewsToProcess(establishment_ids, incr)
         effective == IF groups = {} \/ "all" \in groups THEN AllGroups
                      ELSE groups
     IN IF revs = <<>>
        THEN EndEnrich("ok")
        ELSE /\ en_pc' = FirstFamily(effective)
             /\ en_reviews' = revs
             /\ enrichment_data' = EmptyDict
             /\ en_groups' = effective
             /\ en_incremental' = incr
             /\ en_pos' = 0
             /\ en_result' = "running"
             /\ en_prompt' = NoPrompt
             /\ en_response' = NoResponse
  /\ UNCHANGED enriched_reviews
  /\ UNCHANGED notEnrich

\* _process_sentiment_attributes: one batch of the loop
ProcessSentimentBatch(response) ==
  /\ en_pc = "sentiment"
  /\ LET prompt == BuildPrompt("sentiment", Batch(en_reviews, en_pos))
         response_data == CallGeminiBatch(prompt, response)
         validated_data ==
           ValidateSentimentResponse(response_data, SentimentAttributes)
     IN /\ enrichment_data' = MergeResults(enrichment_data, validated_data)
        /\ en_prompt' = prompt
  /\ en_response' = [status |-> response.status, text |-> response.text]
  /\ IF en_pos + BatchSize >= Len(en_reviews)
     THEN en_pc' = AfterSentiment(en_groups) /\ en_pos' = 0
     ELSE en_pc' = en_pc /\ en_pos' = en_pos + BatchSize
  /\ UNCHANGED <<enriched_reviews, en_reviews, en_groups, en_incremental,
                 en_result>>
  /\ UNCHANGED notEnrich

\* _process_complaint_attribute: one batch of the loop
ProcessComplaintBatch(response) ==
  /\ en_pc = "complaint"
  /\ LET prompt == BuildPrompt("complaint", Batch(en_reviews, en_pos))
         response_data == CallGeminiBatch(prompt, response)
         validated_data ==
           ValidateBinaryResponse(response_data, {"is_complaint"})
     IN /\ enrichment_data' = MergeResults(enrichment_data, validated_data)
        /\ en_prompt' = prompt
  /\ en_response' = [status |-> response.status, text |-> response.text]
  /\ IF en_pos + BatchSize >= Len(en_reviews)
     THEN en_pc' = "upsert" /\ en_pos' = 0
     ELSE en_pc' = en_pc /\ en_pos' = en_pos + BatchSize
  /\ UNCHANGED <<enriched_reviews, en_reviews, en_groups, en_incremental,
                 en_result>>
  /\ UNCHANGED notEnrich

\* "Upsert current data before processing response attributes"
UpsertCurrent(applied) ==
  /\ en_pc = "upsert"
  /\ enriched_reviews' =
       UpsertEnrichedReviews(enrichment_data, en_reviews, applied)
  /\ IF UpsertRaises(enrichment_data, en_reviews, applied)
     THEN EndEnrich("failed")
     ELSE /\ en_pc' = IF "response" \in en_groups THEN "response" ELSE "final"
          /\ en_prompt' = NoPrompt
          /\ en_response' = NoResponse
          /\ UNCHANGED <<en_reviews, enrichment_data, en_groups,
                         en_incremental, en_pos, en_result>>
  /\ UNCHANGED notEnrich

\* _process_response_attributes: the reviews with a response whose stored
\* enrichment document says is_complaint = 1
EligibleReviews ==
  SelectSeq(en_reviews,
            LAMBDA review :
              /\ review.response_from_owner_text # NoText
              /\ \E d \in enriched_reviews :
                   /\ d._id = review._id
                   /\ "is_complaint" \in DOMAIN d
                   /\ d.is_complaint = 1)

\* "No reviews eligible for response attribute analysis"
ResponseNoneEligible ==
  /\ en_pc = "response"
  /\ EligibleReviews = <<>>
  /\ en_pc' = "final"
  /\ UNCHANGED <<enriched_reviews, en_reviews, enrichment_data, en_groups,
                 en_incremental, en_pos, en_result, en_prompt,
                 en_response>>
  /\ UNCHANGED notEnrich

\* _process_response_attributes: one batch of the loop
ProcessResponseBatch(response) ==
  /\ en_pc = "response"
  /\ EligibleReviews # <<>>
  /\ LET prompt == BuildPrompt("response", Batch(EligibleReviews, en_pos))
         response_data == CallGeminiBatch(prompt, response)
         validated_data ==
           ValidateBinaryResponse(response_data, ResponseAttributes)
     IN /\ enrichment_data' = MergeResults(enrichment_data, validated_data)
        /\ en_prompt' = prompt
  /\ en_response' = [status |-> response.status, text |-> response.text]
  /\ IF en_pos + BatchSize >= Len(EligibleReviews)
     THEN en_pc' = "final" /\ en_pos' = 0
     ELSE en_pc' = en_pc /\ en_pos' = en_pos + BatchSize
  /\ UNCHANGED <<enriched_reviews, en_reviews, en_groups, en_incremental,
                 en_result>>
  /\ UNCHANGED notEnrich

\* "Final upsert" and the return of process_reviews
FinalUpsert(applied) ==
  /\ en_pc = "final"
  /\ enriched_reviews' =
       UpsertEnrichedReviews(enrichment_data, en_reviews, applied)
  /\ IF UpsertRaises(enrichment_data, en_reviews, applied)
     THEN EndEnrich("failed")
     ELSE EndEnrich("ok")
  /\ UNCHANGED notEnrich

\* the expected_attributes of the validator call of a family
ExpectedAttributes(family) ==
  CASE family = "sentiment" -> SentimentAttributes
    [] family = "complaint" -> {"is_complaint"}
    [] OTHER -> ResponseAttributes

\* validated_data = self._validate_sentiment_response(response_data, ...)
CallValidateSentiment ==
  /\ val_pc = "called"
  /\ val_family = "sentiment"
  /\ val_validated' = ValidateSentimentResponse(val_response_data,
                                                ExpectedAttributes(val_family))
  /\ val_pc' = "returned"
  /\ UNCHANGED <<val_family, val_response_data>>
  /\ UNCHANGED <<unifyFrame, lsVars, enVars, callVars, trVars,
               scoreVars, runVars>>

\* validated_data = self._validate_binary_response(response_data, ...)
CallValidateBinary ==
  /\ val_pc = "called"
  /\ val_family \in {"complaint", "response"}
  /\ val_validated' = ValidateBinaryResponse(val_response_data,
                                             ExpectedAttributes(val_family))
  /\ val_pc' = "returned"
  /\ UNCHANGED <<val_family, val_response_data>>
  /\ UNCHANGED <<unifyFrame, lsVars, enVars, callVars, trVars,
               scoreVars, runVars>>

InitValidation ==
  /\ val_pc = "idle"
  /\ val_family = "sentiment"
  /\ val_response_data = EmptyDict
  /\ val_validated = EmptyDict

\* _call_gemini_batch, lines 323-326: the token budget
CheckBudget ==
  /\ call_pc = "called"
  /\ IF EstimateTokenCount(call_prompt.len) > MAX_TOKENS
     THEN call_pc' = "returned" /\ call_result' = EmptyDict
     ELSE call_pc' = "generate" /\ UNCHANGED call_result
  /\ UNCHANGED <<call_prompt, call_response, call_sent, call_tried>>
  /\ UNCHANGED <<unifyFrame, lsVars, enVars, valVars, trVars,
               scoreVars, runVars>>

\* lines 328-332: generate_content(prompt) and the test of the response;
\* an exception ends the call in the outer handler
GenerateContent ==
  /\ call_pc = "generate"
  /\ call_sent' = Append(call_sent, call_prompt)
  /\ IF call_response.status = "raises" \/ call_response.text = <<>>
     THEN call_pc' = "returned" /\ call_result' = EmptyDict
     ELSE call_pc' = "strict" /\ UNCHANGED call_result
  /\ UNCHANGED <<call_prompt, call_response, call_tried>>
  /\ UNCHANGED <<unifyFrame, lsVars, enVars, valVars, trVars,
               scoreVars, runVars>>

\* lines 335-351: json.loads of the response without its code fence
StrictParse ==
  /\ call_pc = "strict"
  /\ call_tried' = Append(call_tried, "strict")
  /\ LET parsed == JsonLoads(StripFence(call_response.text),
                              call_response.data)
     IN IF parsed.ok
        THEN call_pc' = "returned" /\ call_result' = parsed.value
        ELSE call_pc' = "fallback" /\ UNCHANGED call_result
  /\ UNCHANGED <<call_prompt, call_response, call_sent>>
  /\ UNCHANGED <<unifyFrame, lsVars, enVars, valVars, trVars,
               scoreVars, runVars>>

\* lines 353-368: the handler of json.JSONDecodeError
FallbackParse ==
  /\ call_pc = "fallback"
  /\ call_tried' = Append(call_tried, "fallback")
  /\ LET json_match == ReSearch(call_response.text)
         parsed == JsonLoads(json_match, call_response.data)
     IN call_result' = IF json_match # <<>> /\ parsed.ok THEN parsed.value
                       ELSE EmptyDict
  /\ call_pc' = "returned"
  /\ UNCHANGED <<call_prompt, call_response, call_sent>>
  /\ UNCHANGED <<unifyFrame, lsVars, enVars, valVars, trVars,
               scoreVars, runVars>>

InitCall ==
  /\ call_pc = "idle"
  /\ call_prompt = NoPrompt
  /\ call_response = [status |-> "none", text |-> <<>>, data |-> EmptyDict]
  /\ call_sent = <<>>
  /\ call_tried = <<>>
  /\ call_result = EmptyDict

\* the calls logged
MaxCalls == 2

\* the other variables of the standardization stage
lsRest == <<ls_unified_reviews, ls_pc, existing_ls_ids, ls_filter,
            total_reviews_to_process, processed_count, unified_reviews_batch,
            page_pos, ls_reviews_to_insert, external_calls, ls_fetch_failed, ls_interrupts,
            ls_result>>

NoReview == [_id |-> 0]

\* translated = self._translate_text(text): one call, logged with the
\* cache before and after it
CallTranslateText(text, translator) ==
  /\ Len(tr_log) < MaxCalls
  /\ LET r == TranslateText(text, translation_cache, translator)
     IN /\ translation_cache' = r.cache
        /\ tr_log' = Append(tr_log,
                            [op |-> "translate", text |-> text,
                             translator |-> translator, detector |-> "none",
                             before |-> translation_cache, after |-> r.cache,
                             out |-> r.out, called |-> r.called,
                             looked |-> r.looked, review |-> NoReview,
                             doc |-> NoReview])
  /\ UNCHANGED <<unifyFrame, lsRest, enVars, valVars, callVars,
               scoreVars, runVars>>

\* ls_review = self._standardize_google_review_ls(review) or
\* self._standardize_trustpilot_review_ls(review): one call, logged
CallStandardizeLs(review, detector, translator) ==
  /\ Len(tr_log) < MaxCalls
  /\ LET r == IF review.platform = "google"
              THEN StandardizeGoogleReviewLs(review, detector, translator,
                                             translation_cache)
              ELSE StandardizeTrustpilotReviewLs(review, detector, translator,
                                                 translation_cache)
     IN /\ translation_cache' = r.cache
        /\ tr_log' = Append(tr_log,
                            [op |-> "standardize",
                             text |-> review.response_from_owner_text,
                             translator |-> translator, detector |-> detector,
                             before |-> translation_cache, after |-> r.cache,
                             out |-> r.doc.response_from_owner_text,
                             called |-> r.called, looked |-> FALSE,
                             review |-> review, doc |-> r.doc])
  /\ UNCHANGED <<unifyFrame, lsRest, enVars, valVars, callVars,
               scoreVars, runVars>>

InitTranslation == tr_log = <<>>

\* ---------------------------------------------------------------- scoring
\* clinic_scoring_system.py.  A score is None or a number: <<>> is None and
\* <<v>> the number v.  NPS and composite scores are counted in hundredths
\* (round(x, 2)), adjusted ratings in thousandths (round(x, 3)), weights in
\* tenths; the prior average is the fraction num/den.
None == <<>>
Num(v) == <<v>>
PRIOR_WEIGHT == 100
SERVICE_QUALITY_WEIGHTS ==
  [treatment_satisfaction |-> 3, post_op |-> 2, staff_satisfaction |-> 3,
   facility |-> 2]
COMMUNICATION_WEIGHTS ==
  [onsite_communication |-> 4, scheduling |-> 2, online_communication |-> 3]

\* dict.get(key, default)
Get(d, key, default) == IF key \in DOMAIN d THEN d[key] ELSE default

\* round(): the quotient num/den rounded to the nearest integer, a tie to
\* the even one
Round(num, den) ==
  LET q == num \div den
      r == num - q * den
  IN IF 2 * r < den THEN q
     ELSE IF 2 * r > den THEN q + 1
     ELSE IF q % 2 = 0 THEN q ELSE q + 1

RECURSIVE SumSeq(_)
SumSeq(s) == IF s = <<>> THEN 0 ELSE Head(s) + SumSeq(Tail(s))

\* the sum of f over the keys S
RECURSIVE SumOf(_, _)
SumOf(S, f) ==
  IF S = {} THEN 0
  ELSE LET k == CHOOSE x \in S : TRUE IN f[k] + SumOf(S \ {k}, f)

\* the match of both rating queries: rating exists, is not None and is > 0
Rated(coll) == {d \in coll : "rating" \in DOMAIN d /\ d.rating > 0}

\* the ratings of a list of documents
Ratings(docs) == [i \in 1..Len(docs) |-> docs[i].rating]

\* _calculate_prior_average: $avg of the ratings, 4.0 when there is none
CalculatePriorAverage(coll) ==
  IF Rated(coll) = {} THEN [num |-> 4, den |-> 1]
  ELSE [num |-> SumSeq(Ratings(InIdOrder(Rated(coll)))),
        den |-> Cardinality(Rated(coll))]

\* a rating that leaves out the prior: the mean of the ratings
CalculateAdjustedRating_NoPrior(ratings, prior_avg) ==
  IF ratings = <<>> THEN None
  ELSE Num(Round(1000 * SumSeq(ratings), Len(ratings)))

\* a rating that falls back to the prior when there is no rating
CalculateAdjustedRating_Prior(ratings, prior_avg) ==
  IF ratings = <<>> THEN Num(Round(1000 * prior_avg.num, prior_avg.den))
  ELSE Num(Round(1000 * (PRIOR_WEIGHT * prior_avg.num
                           + SumSeq(ratings) * prior_avg.den),
                 prior_avg.den * (PRIOR_WEIGHT + Len(ratings))))

\* _calculate_adjusted_rating:
\* (PRIOR_WEIGHT * prior_avg + n * mean(ratings)) / (PRIOR_WEIGHT + n)
CalculateAdjustedRating(ratings, prior_avg) ==
  IF ratings = <<>> THEN None
  ELSE Num(Round(1000 * (PRIOR_WEIGHT * prior_avg.num
                           + SumSeq(ratings) * prior_avg.den),
                 prior_avg.den * (PRIOR_WEIGHT + Len(ratings))))

\* a rule that scores every answered complaint as positive
CalculateOnlineCommunicationScore_Answered(enriched_data) ==
  IF Get(enriched_data, "is_complaint", 0) # 1 THEN 0
  ELSE IF Get(enriched_data, "has_response", 0) = 0 THEN 1
  ELSE 3

\* _calculate_online_communication_score
CalculateOnlineCommunicationScore(enriched_data) ==
  LET is_complaint == Get(enriched_data, "is_complaint", 0)
      has_response == Get(enriched_data, "has_response", 0)
      has_constructive_response ==
        Get(enriched_data, "has_constructive_response", 0)
  IN IF is_complaint # 1 THEN 0
     ELSE IF has_response = 0 THEN 1
     ELSE IF has_response = 1 /\ has_constructive_response = 1 THEN 3
     ELSE IF has_response = 1 THEN 2
     ELSE 0

\* a score that counts the reviews scored 0 in its denominator
CalculateNpsScore_CountsZero(score_counts) ==
  LET positive_count == Get(score_counts, 3, 0)
      negative_count == Get(score_counts, 1, 0)
      total_count == Get(score_counts, 0, 0) + positive_count
                       + Get(score_counts, 2, 0) + negative_count
  IN IF total_count = 0 THEN None
     ELSE Num(Round((positive_count - negative_count) * 10000, total_count))

\* _calculate_nps_score; score_counts is a Counter
CalculateNpsScore(score_counts) ==
  LET positive_count == Get(score_counts, 3, 0)
      neutral_count == Get(score_counts, 2, 0)
      negative_count == Get(score_counts, 1, 0)
      total_count == positive_count + neutral_count + negative_count
  IN IF total_count = 0 THEN None
     ELSE Num(Round((positive_count - negative_count) * 10000, total_count))

\* a composite that divides by the weight of the whole table
CalculateCompositeScore_WholeTable(individual_scores, weights) ==
  LET used == {a \in DOMAIN weights :
                 Get(individual_scores, a, None) # None}
      weighted_sum ==
        SumOf(used, [a \in used |-> individual_scores[a][1] * weights[a]])
  IN IF used = {} THEN None
     ELSE Num(Round(weighted_sum, SumOf(DOMAIN weights, weights)))

\* _calculate_composite_score; individual_scores holds numbers
CalculateCompositeScore(individual_scores, weights) ==
  LET used == {a \in DOMAIN weights :
                 Get(individual_scores, a, None) # None}
      weighted_sum ==
        SumOf(used, [a \in used |-> individual_scores[a][1] * weights[a]])
      total_weight == SumOf(used, weights)
  IN IF total_weight = 0 THEN None
     ELSE Num(Round(weighted_sum, total_weight))

\* _get_establishment_data
GetEstablishmentData(establishment_id) ==
  [rating_reviews |->
     {d \in Rated(ls_unified_reviews) : d.establishment_id = establishment_id},
   enriched_reviews |->
     {d \in enriched_reviews : d.establishment_id = establishment_id}]

\* the attributes counted by calculate_establishment_scores
ScoredAttributes ==
  {"staff_satisfaction", "scheduling", "treatment_satisfaction",
   "onsite_communication", "facility", "post_op", "affordability",
   "recommendation"}
ScoreValues == 0..3

\* attribute_scores[attribute] and online_comm_scores after the loop
AttributeScores(enriched, attribute) ==
  IF attribute = "online_communication"
  THEN [v \in ScoreValues |->
          Cardinality({d \in enriched :
                         CalculateOnlineCommunicationScore(d) = v})]
  ELSE [v \in ScoreValues |->
          Cardinality({d \in enriched :
                         attribute \in DOMAIN d /\ d[attribute] = v})]

\* nps_scores: the attributes whose score is not None
NpsScores(enriched) ==
  LET all == ScoredAttributes \cup {"online_communication"}
      defined == {a \in all :
                    CalculateNpsScore(AttributeScores(enriched, a)) # None}
  IN [a \in defined |-> CalculateNpsScore(AttributeScores(enriched, a))]

\* calculate_establishment_scores from the data read, lines 187-254
EstablishmentScores(rating_reviews, enriched, prior_avg, now) ==
  LET nps_scores == NpsScores(enriched)
      optional ==
        [affordability_score |-> Get(nps_scores, "affordability", None),
         recommendation_score |-> Get(nps_scores, "recommendation", None),
         service_quality_score |->
           CalculateCompositeScore(nps_scores, SERVICE_QUALITY_WEIGHTS),
         communication_score |->
           CalculateCompositeScore(nps_scores, COMMUNICATION_WEIGHTS),
         online_communication_score |->
           Get(nps_scores, "online_communication", None)]
      added == {f \in DOMAIN optional : optional[f] # None}
  IN Update([adjusted_rating |->
               CalculateAdjustedRating(Ratings(InIdOrder(rating_reviews)),
                                       prior_avg),
             total_reviews_analyzed |->
               Cardinality(Ids(rating_reviews) \cup Ids(enriched)),
             scores_updated_at |-> now],
            [f \in added |-> optional[f]])

\* the other variables of the standardization and enrichment stages
lsLocals == <<ls_pc, existing_ls_ids, ls_filter, total_reviews_to_process,
              processed_count, unified_reviews_batch, page_pos,
              ls_reviews_to_insert, translation_cache, external_calls,
              ls_fetch_failed, ls_interrupts, ls_result>>
enLocals == <<en_pc, en_reviews, enrichment_data, en_groups, en_incremental,
              en_pos, en_result, en_prompt, en_response>>
scoreFrame == <<unifyFrame, lsLocals, enLocals, valVars, callVars, trVars,
                runVars>>

\* scoring runs of a behaviour
MaxScoreRuns == 2
NotScored == [e \in Establishments |-> 0]

\* scores computed with the last adjusted rating of the establishment as
\* the prior
CalculateEstablishmentScores_Running(establishment_id, prior_avg, now) ==
  LET data == GetEstablishmentData(establishment_id)
      last == Get(establishments[establishment_id], "adjusted_rating", None)
  IN EstablishmentScores(data.rating_reviews, data.enriched_reviews,
                         IF last = None THEN prior_avg
                         ELSE [num |-> last[1], den |-> 1000], now)

\* calculate_establishment_scores
CalculateEstablishmentScores(establishment_id, prior_avg, now) ==
  LET data == GetEstablishmentData(establishment_id)
  IN EstablishmentScores(data.rating_reviews, data.enriched_reviews,
                         prior_avg, now)

\* update_one({"_id": key}, ...): a filter value matches a stored _id
\* only if it has its type and value; the store's identities are ObjectIds
UpdateMatches(key, oid) == key.type = "ObjectId" /\ key.oid = oid

\* process_all_establishments; `failing` are the establishments whose
\* reads or update raise and are skipped by the handler of the loop. The
\* listed ids are the strings of the command line, the ids of an
\* unrestricted run are the ObjectIds find() returns; the scores are read
\* under str(_id) and written under _id
ProcessAllEstablishments(establishment_ids, failing) ==
  /\ score_clock < MaxScoreRuns
  /\ LET prior_avg == CalculatePriorAverage(ls_unified_reviews)
         listed == IF establishment_ids # {}
                   THEN {[type |-> "str", oid |-> e] : e \in establishment_ids}
                   ELSE {[type |-> "ObjectId", oid |-> e]
                         : e \in DOMAIN establishments}
         done == {e \in DOMAIN establishments :
                    \E key \in listed :
                      key.oid \notin failing /\ UpdateMatches(key, e)}
     IN /\ establishments' =
             [e \in DOMAIN establishments |->
                IF e \in done
                THEN Update(establishments[e],
                            CalculateEstablishmentScores(e, prior_avg,
                                                         score_clock + 1))
                ELSE establishments[e]]
        /\ last_scored' = [e \in DOMAIN last_scored |->
                             IF e \in done THEN last_scored[e] + 1
                             ELSE last_scored[e]]
  /\ score_clock' = score_clock + 1
  /\ score_call' = [op |-> "process_all_establishments",
                    establishment_ids |-> establishment_ids,
                    failing |-> failing]
  /\ UNCHANGED <<ls_unified_reviews, enriched_reviews>>
  /\ UNCHANGED scoreFrame

\* the standardization stage stores a review with its rating
StoreRatedReview(doc) ==
  /\ doc._id \notin Ids(ls_unified_reviews)
  /\ ls_unified_reviews' = InsertMany(ls_unified_reviews, <<doc>>, {})
  /\ last_scored' = NotScored
  /\ UNCHANGED <<enriched_reviews, establishments, score_clock, score_call>>
  /\ UNCHANGED scoreFrame

\* the enrichment stage upserts the attributes of a review ($set)
UpsertEnrichedReview(doc) ==
  /\ enriched_reviews' =
       IF \E d \in enriched_reviews : d._id = doc._id
       THEN LET old == CHOOSE d \in enriched_reviews : d._id = doc._id
            IN (enriched_reviews \ {old}) \cup {Update(old, doc)}
       ELSE enriched_reviews \cup {doc}
  /\ enriched_reviews' # enriched_reviews
  /\ last_scored' = NotScored
  /\ UNCHANGED <<ls_unified_reviews, establishments, score_clock, score_call>>
  /\ UNCHANGED scoreFrame

\* every file is there, no controller or processor has been set up and no
\* combined command runs
ConfigFiles ==
  {"mongodb_connection", "apify_token", "google_api_key", "enrichment_config"}
NoProcessor == [state |-> "none", config |-> "none"]
NoCommand ==
  [name |-> "none", pc |-> "idle", todo |-> <<>>, ran |-> <<>>,
   success |-> "none"]
InitRun ==
  /\ files = ConfigFiles
  /\ controller = "none"
  /\ processor = NoProcessor
  /\ cmd = NoCommand

NoCall == [op |-> "none"]
InitScoring ==
  /\ establishments = [e \in Establishments |-> [_id |-> e]]
  /\ score_clock = 0
  /\ last_scored = NotScored
  /\ score_call = NoCall

InitEnrichment ==
  /\ enriched_reviews = {}
  /\ en_pc = "idle"
  /\ en_reviews = <<>>
  /\ enrichment_data = EmptyDict
  /\ en_groups = {}
  /\ en_incremental = TRUE
  /\ en_pos = 0
  /\ en_result = "none"
  /\ en_prompt = NoPrompt
  /\ en_response = NoResponse

\* ------------------------------------------------------ specifications
Init ==
  /\ google = {}
  /\ trustpilot = {}
  /\ next_oid = 1
  /\ unified_reviews = {}
  /\ pc = [p \in Procs |-> "idle"]
  /\ existing_unified_ids = [p \in Procs |-> {}]
  /\ query_filter = [p \in Procs |-> {}]
  /\ cursor = [p \in Procs |-> 0]
  /\ reviews_to_insert = [p \in Procs |-> <<>>]
  /\ unified_count = [p \in Procs |-> ZeroCount]
  /\ insert_errors = [p \in Procs |-> 0]
  /\ result = [p \in Procs |-> "none"]
  /\ last_run = NoRun
  /\ InitLs
  /\ InitEnrichment
  /\ InitValidation
  /\ InitCall
  /\ InitTranslation
  /\ InitScoring
  /\ InitRun

\* one operator at a time: scrapes and unification runs in sequence, with
\* failing store calls and user interruptions
Next ==
  \/ \E e \in Establishments, l \in GoogleLists : SaveGoogleReviews(e, l)
  \/ \E e \in Establishments, l \in TrustpilotLists : SaveTrustpilotReviews(e, l)
  \/ \E f \in Filters : UnifyStart(1, f)
  \/ \E f \in Filters : UnifyFetchFails(1, f)
  \/ GoogleSkip(1)
  \/ GoogleMap(1)
  \/ \E r \in Rejections(1) : GoogleFlush(1, r)
  \/ GoogleDone(1)
  \/ TrustpilotSkip(1)
  \/ TrustpilotMap(1)
  \/ \E r \in Rejections(1) : TrustpilotFlush(1, r)
  \/ \E r \in Rejections(1) : UnifyFinish(1, r)
  \/ UnifyInterrupt(1)

Spec == Init /\ [][Next]_vars

\* the raw collections after a scrape of establishment 1 (both platforms)
\* and a Google scrape of establishment 2
InitStages ==
  /\ google = { GoogleDoc(1, 1, G1), GoogleDoc(3, 2, G2) }
  /\ trustpilot = { TrustpilotDoc(2, 1, T1) }
  /\ next_oid = 4
  /\ unified_reviews = {}
  /\ pc = [p \in Procs |-> "idle"]
  /\ existing_unified_ids = [p \in Procs |-> {}]
  /\ query_filter = [p \in Procs |-> {}]
  /\ cursor = [p \in Procs |-> 0]
  /\ reviews_to_insert = [p \in Procs |-> <<>>]
  /\ unified_count = [p \in Procs |-> ZeroCount]
  /\ insert_errors = [p \in Procs |-> 0]
  /\ result = [p \in Procs |-> "none"]
  /\ last_run = NoRun
  /\ InitLs
  /\ InitEnrichment
  /\ InitValidation
  /\ InitCall
  /\ InitTranslation
  /\ InitScoring
  /\ InitRun

LsRejections ==
  SUBSET (SeqIds(ls_reviews_to_insert) \cup SeqIds(unified_reviews_batch))

\* unification and standardization runs in sequence over fixed raw
\* collections, with failing store calls, failing external calls and user
\* interruptions
NextStages ==
  \/ \E f \in Filters : UnifyStart(1, f)
  \/ \E f \in Filters : UnifyFetchFails(1, f)
  \/ GoogleSkip(1)
  \/ GoogleMap(1)
  \/ \E r \in Rejections(1) : GoogleFlush(1, r)
  \/ GoogleDone(1)
  \/ TrustpilotSkip(1)
  \/ TrustpilotMap(1)
  \/ \E r \in Rejections(1) : TrustpilotFlush(1, r)
  \/ \E r \in Rejections(1) : UnifyFinish(1, r)
  \/ UnifyInterrupt(1)
  \/ \E f \in Filters, fetch \in {"ok", "error"} : LsStart(f, fetch)
  \/ LsFetchPage
  \/ LsSkip
  \/ \E d \in {"ok", "error"}, t \in {"ok", "error"}, r \in LsRejections :
       LsStandardize(d, t, r)
  \/ \E r \in LsRejections : LsPageEnd(r)
  \/ \E r \in LsRejections : LsFinish(r)
  \/ \E r \in LsRejections : LsInterrupt(r)

SpecStages == InitStages /\ [][NextStages]_vars

\* two processes run the unification stage once each, at the same time, over
\* the same raw collections; the store accepts every well-formed write
NextConc ==
  \E p \in Procs :
    \/ \E f \in Filters : result[p] = "none" /\ UnifyStart(p, f)
    \/ GoogleSkip(p)
    \/ GoogleMap(p)
    \/ GoogleFlush(p, {})
    \/ GoogleDone(p)
    \/ TrustpilotSkip(p)
    \/ TrustpilotMap(p)
    \/ TrustpilotFlush(p, {})
    \/ UnifyFinish(p, {})

SpecConc == InitStages /\ [][NextConc]_vars

\* the stores after a clean unification run and a clean standardization run
\* over the raw collections of InitStages
InitEnrich ==
  /\ google = { GoogleDoc(1, 1, G1), GoogleDoc(3, 2, G2) }
  /\ trustpilot = { TrustpilotDoc(2, 1, T1) }
  /\ next_oid = 4
  /\ unified_reviews =
       {StandardizeGoogleReview(r, 1) : r \in google}
         \cup {StandardizeTrustpilotReview(r, 1) : r \in trustpilot}
  /\ pc = [p \in Procs |-> "idle"]
  /\ existing_unified_ids = [p \in Procs |-> {}]
  /\ query_filter = [p \in Procs |-> {}]
  /\ cursor = [p \in Procs |-> 0]
  /\ reviews_to_insert = [p \in Procs |-> <<>>]
  /\ unified_count = [p \in Procs |-> IF p = 1 THEN [google |-> 2, trustpilot |-> 1]
                                       ELSE ZeroCount]
  /\ insert_errors = [p \in Procs |-> 0]
  /\ result = [p \in Procs |-> IF p = 1 THEN "ok" ELSE "none"]
  /\ last_run = [clean |-> TRUE, filter |-> {}]
  /\ ls_unified_reviews =
       {StandardizeGoogleReviewLs(d, "ok", "ok", {}).doc :
          d \in {u \in unified_reviews : u.platform = "google"}}
         \cup {StandardizeTrustpilotReviewLs(d, "ok", "ok", {}).doc :
                 d \in {u \in unified_reviews : u.platform = "trustpilot"}}
  /\ ls_pc = "idle"
  /\ existing_ls_ids = {}
  /\ ls_filter = {}
  /\ total_reviews_to_process = 0
  /\ processed_count = 0
  /\ unified_reviews_batch = <<>>
  /\ page_pos = 0
  /\ ls_reviews_to_insert = <<>>
  /\ translation_cache = {}
  /\ external_calls = {}
  /\ ls_fetch_failed = FALSE
  /\ ls_interrupts = {}
  /\ ls_result = "ok"
  /\ InitEnrichment
  /\ InitValidation
  /\ InitCall
  /\ InitTranslation
  /\ InitScoring
  /\ InitRun

\* what the external model may answer to a prompt: nothing usable (the call
\* raised, or the text did not parse), or a JSON object keyed by review ids
Answers(keys, values) ==
  {[status |-> "raises", text |-> <<>>, data |-> EmptyDict],
   [status |-> "ok", text |-> <<>>, data |-> EmptyDict],
   [status |-> "ok", text |-> <<"w">>, data |-> EmptyDict],
   [status |-> "ok", text |-> <<"{", "e">>,
    data |-> [k \in keys |-> CHOOSE v \in values : TRUE]]}
    \cup {[status |-> "ok",
           text |-> IF DOMAIN f = {} THEN <<"{", "}">> ELSE <<"{", "e", "}">>,
           data |-> f] :
            f \in UNION {[S -> values] : S \in SUBSET keys}}
RunKeys == {Str(i) : i \in SeqIds(en_reviews)}
SentimentValues ==
  { JDict([staff_satisfaction |-> JInt(3)]),
    JDict([staff_satisfaction |-> JInt(4)]) }
ComplaintValues == { JInt(0), JInt(1), JInt(2) }
ResponseValues ==
  { JDict([has_constructive_response |-> JInt(1), has_no_threat |-> JInt(1)]),
    JDict([has_constructive_response |-> JInt(0), has_no_threat |-> JInt(1)]),
    JInt(1) }
GroupChoices == { {}, {"sentiment"}, {"complaint"}, {"response"} }

\* enrichment runs in sequence over fixed standardized reviews, with any
\* answer of the external model and failing store writes
NextEnrich ==
  \/ \E f \in Filters, incr \in BOOLEAN, g \in GroupChoices :
       EnrichStart(f, incr, g)
  \/ \E a \in Answers(RunKeys, SentimentValues) : ProcessSentimentBatch(a)
  \/ \E a \in Answers(RunKeys, ComplaintValues) : ProcessComplaintBatch(a)
  \/ \E k \in 0..Len(en_reviews) : UpsertCurrent(k)
  \/ ResponseNoneEligible
  \/ \E a \in Answers(RunKeys, ResponseValues) : ProcessResponseBatch(a)
  \/ \E k \in 0..Len(en_reviews) : FinalUpsert(k)

SpecEnrich == InitEnrich /\ [][NextEnrich]_vars

\* the external model raises, or answers `value` for every review of the run
Replies(keys, value) ==
  {[status |-> "raises", text |-> <<>>, data |-> EmptyDict],
   [status |-> "ok", text |-> <<"{", "e", "}">>,
    data |-> [k \in keys |-> value]]}

\* the three stages one after the other, in any order and number, over
\* fixed raw collections: the store accepts every write, the detector and
\* the translator may fail, the external model may fail
NextPipeline ==
  \/ UnifyStart(1, {})
  \/ GoogleSkip(1)
  \/ GoogleMap(1)
  \/ GoogleFlush(1, {})
  \/ GoogleDone(1)
  \/ TrustpilotSkip(1)
  \/ TrustpilotMap(1)
  \/ TrustpilotFlush(1, {})
  \/ UnifyFinish(1, {})
  \/ LsStart({}, "ok")
  \/ LsFetchPage
  \/ LsSkip
  \/ \E d \in {"ok", "error"}, t \in {"ok", "error"} : LsStandardize(d, t, {})
  \/ LsPageEnd({})
  \/ LsFinish({})
  \/ \E incr \in BOOLEAN : EnrichStart({}, incr, {})
  \/ \E a \in Replies(RunKeys, JDict([staff_satisfaction |-> JInt(3)])) :
       ProcessSentimentBatch(a)
  \/ \E a \in Replies(RunKeys, JInt(1)) : ProcessComplaintBatch(a)
  \/ UpsertCurrent(Len(en_reviews))
  \/ ResponseNoneEligible
  \/ \E a \in Replies(RunKeys,
                       JDict([has_constructive_response |-> JInt(1),
                              has_no_threat |-> JInt(1)])) :
       ProcessResponseBatch(a)
  \/ \E k \in {0, Len(en_reviews)} : FinalUpsert(k)

SpecPipeline == InitStages /\ [][NextPipeline]_vars

\* nothing scraped yet, no stage running
InitUnify ==
  /\ google = {}
  /\ trustpilot = {}
  /\ next_oid = 1
  /\ unified_reviews = {}
  /\ pc = [p \in Procs |-> "idle"]
  /\ existing_unified_ids = [p \in Procs |-> {}]
  /\ query_filter = [p \in Procs |-> {}]
  /\ cursor = [p \in Procs |-> 0]
  /\ reviews_to_insert = [p \in Procs |-> <<>>]
  /\ unified_count = [p \in Procs |-> ZeroCount]
  /\ insert_errors = [p \in Procs |-> 0]
  /\ result = [p \in Procs |-> "none"]
  /\ last_run = NoRun

\* what a model may put under a review id or an attribute name: numbers in
\* and out of range, true, text, a fraction
ScalarValues ==
  { JInt(0), JInt(1), JInt(3), JInt(5), JInt(0 - 1), JBool(TRUE),
    JStr("high"), JFloat(1, 5) }
ObjectValues ==
  { JDict(f) : f \in UNION { [N -> {JInt(1), JInt(5), JBool(TRUE), JStr("high")}]
                               : N \in { {"staff_satisfaction"},
                                         {"is_complaint"},
                                         {"has_no_threat", "mood"},
                                         {"has_constructive_response",
                                          "has_no_threat"} } } }
ModelOutputs ==
  UNION { [S -> ScalarValues \cup ObjectValues]
            : S \in {{Str(1)}, {Str(1), Str(2)}} }

\* a validator is called once on any model output
InitValidate ==
  /\ InitUnify
  /\ InitLs
  /\ InitEnrichment
  /\ val_pc = "called"
  /\ val_family \in {"sentiment", "complaint", "response"}
  /\ val_response_data \in ModelOutputs
  /\ val_validated = EmptyDict
  /\ InitCall
  /\ InitTranslation
  /\ InitScoring
  /\ InitRun

NextValidate ==
  \/ CallValidateSentiment
  \/ CallValidateBinary

SpecValidate == InitValidate /\ [][NextValidate]_vars

\* the longest response body drawn
MaxBody == 4

\* response texts: every body of braces, entries and prose, bare, inside a
\* code fence, after an opening fence only, inside white space and inside
\* prose
Bodies == UNION {[1..n -> {"{", "}", "e", "w"}] : n \in 0..MaxBody}
ResponseTexts ==
  Bodies
    \cup {<<FenceJson>> \o b \o <<Fence>> : b \in Bodies}
    \cup {<<Fence>> \o b \o <<Fence>> : b \in Bodies}
    \cup {<<FenceJson>> \o b : b \in Bodies}
    \cup {<<NL>> \o b \o <<NL>> : b \in Bodies}
    \cup {<<"w">> \o b \o <<"w">> : b \in Bodies}

\* prompt lengths around the budget of 4 * MAX_TOKENS + 3 characters
PromptLens ==
  {SentimentHeaderLen + ReviewIdLen + 3 + MIN_REVIEW_LENGTH,
   4 * MAX_TOKENS - 1, 4 * MAX_TOKENS, 4 * MAX_TOKENS + 3,
   4 * MAX_TOKENS + 4, 8 * MAX_TOKENS}

\* the external model at one call: it raises, or answers with a text
ModelResponses ==
  {[status |-> "raises", text |-> <<>>, data |-> EmptyDict]}
    \cup {[status |-> "ok", text |-> t,
           data |-> (Str(1) :> JDict([staff_satisfaction |-> JInt(3)]))] :
            t \in ResponseTexts}

\* _call_gemini_batch is called once with any prompt length and any
\* behaviour of the external model
InitCalled ==
  /\ InitUnify
  /\ InitLs
  /\ InitEnrichment
  /\ InitValidation
  /\ call_pc = "called"
  /\ call_prompt \in {[family |-> "sentiment", ids |-> {Str(1)}, len |-> n] :
                        n \in PromptLens}
  /\ call_response \in ModelResponses
  /\ call_sent = <<>>
  /\ call_tried = <<>>
  /\ call_result = EmptyDict
  /\ InitTranslation
  /\ InitScoring
  /\ InitRun

NextCall ==
  \/ CheckBudget
  \/ GenerateContent
  \/ StrictParse
  \/ FallbackParse

SpecCall == InitCalled /\ [][NextCall]_vars

\* the texts translated: none, white space only, Turkish and English
TranslatedTexts == {NoText, <<NL>>, Merhaba, Hello}

\* scraped reviews in English
G3 == [review_id |-> 6, text |-> Hello, responseFromOwnerText |-> Hello]
T2 == [review_id |-> 8, reviewLanguage |-> "en", reviewHeadline |-> Hello,
       reviewBody |-> Hello]

\* scraped Trustpilot reviews in Turkish: a headline only, a body only
T3 == [review_id |-> 9, reviewLanguage |-> "tr", reviewHeadline |-> Merhaba,
       reviewBody |-> NoText]
T4 == [review_id |-> 10, reviewLanguage |-> "tr", reviewHeadline |-> NoText,
       reviewBody |-> Tesekkur]

\* unified reviews: Google reviews with a Turkish and with an English owner
\* response; Trustpilot reviews in Turkish, in English, and in Turkish
\* without a body and without a title
UnifiedSamples ==
  {StandardizeGoogleReview(GoogleDoc(1, 1, G1), 1),
   StandardizeTrustpilotReview(TrustpilotDoc(2, 1, T1), 1),
   StandardizeGoogleReview(GoogleDoc(3, 1, G3), 1),
   StandardizeTrustpilotReview(TrustpilotDoc(4, 1, T2), 1),
   StandardizeTrustpilotReview(TrustpilotDoc(5, 1, T3), 1),
   StandardizeTrustpilotReview(TrustpilotDoc(6, 1, T4), 1)}

\* one DatabaseManager translates texts and standardizes reviews in any
\* order, with a translator and a detector that may fail at any call
InitTranslate ==
  /\ InitUnify
  /\ InitLs
  /\ InitEnrichment
  /\ InitValidation
  /\ InitCall
  /\ InitTranslation
  /\ InitScoring
  /\ InitRun

NextTranslate ==
  \/ \E text \in TranslatedTexts, t \in {"ok", "error"} :
       CallTranslateText(text, t)
  \/ \E review \in UnifiedSamples, d \in {"ok", "error"},
        t \in {"ok", "error"} : CallStandardizeLs(review, d, t)

SpecTranslate == InitTranslate /\ [][NextTranslate]_vars

\* ---------------------------------------------------- scoring functions
\* the calls of the scoring functions: enriched documents with and without
\* the three binary fields, score Counters, score tables over the two
\* weight tables, rating lists with a prior, and the enriched reviews of
\* one establishment
MaxCount == 2
MaxRatings == 3
BinaryFields == {"is_complaint", "has_response", "has_constructive_response"}
OnlineInputs ==
  UNION {[K -> {0, 1}] : K \in SUBSET BinaryFields}
NpsInputs == [ScoreValues -> 0..MaxCount]
CompositeValues == {Num(-10000), Num(6000), Num(8000), Num(10000)}
CompositeInputs ==
  {[individual_scores |-> s, weights |-> w] :
     s \in UNION {[K -> CompositeValues] :
                    K \in SUBSET DOMAIN SERVICE_QUALITY_WEIGHTS},
     w \in {SERVICE_QUALITY_WEIGHTS}}
  \cup
  {[individual_scores |-> s, weights |-> w] :
     s \in UNION {[K -> CompositeValues] :
                    K \in SUBSET DOMAIN COMMUNICATION_WEIGHTS},
     w \in {COMMUNICATION_WEIGHTS}}
RatingLists == UNION {[1..n -> {2, 4, 5}] : n \in 0..MaxRatings}
PriorAverages ==
  {[num |-> 4, den |-> 1], [num |-> 13, den |-> 3], [num |-> 9, den |-> 2]}
ComplaintDocs ==
  {[_id |-> i, establishment_id |-> 1, is_complaint |-> c,
    has_response |-> r, has_constructive_response |-> k] :
     i \in {1, 2}, c \in {0, 1}, r \in {0, 1}, k \in {0, 1}}
EnrichedSets ==
  {S \in SUBSET ComplaintDocs :
     Cardinality(S) <= 2 /\ Cardinality(Ids(S)) = Cardinality(S)}

ScoreCalls ==
  {[op |-> "online", enriched_data |-> d, done |-> FALSE, out |-> None] :
     d \in OnlineInputs}
  \cup {[op |-> "nps", score_counts |-> c, done |-> FALSE, out |-> None] :
          c \in NpsInputs}
  \cup {[op |-> "composite", individual_scores |-> i.individual_scores,
         weights |-> i.weights, done |-> FALSE, out |-> None] :
          i \in CompositeInputs}
  \cup {[op |-> "adjusted", ratings |-> r, prior_avg |-> p, done |-> FALSE,
         out |-> None] : r \in RatingLists, p \in PriorAverages}
  \cup {[op |-> "scores", enriched |-> S, done |-> FALSE, out |-> None] :
          S \in EnrichedSets}

Pending(op) == score_call.op = op /\ ~score_call.done
Returns(out) == score_call' = [score_call EXCEPT !.done = TRUE, !.out = out]
callFrame == <<unifyFrame, lsVars, enVars, valVars, callVars, trVars,
               establishments, score_clock, last_scored, runVars>>

CallOnlineCommunicationScore ==
  /\ Pending("online")
  /\ Returns(CalculateOnlineCommunicationScore(score_call.enriched_data))
  /\ UNCHANGED callFrame

CallNpsScore ==
  /\ Pending("nps")
  /\ Returns(CalculateNpsScore(score_call.score_counts))
  /\ UNCHANGED callFrame

CallCompositeScore ==
  /\ Pending("composite")
  /\ Returns(CalculateCompositeScore(score_call.individual_scores,
                                     score_call.weights))
  /\ UNCHANGED callFrame

CallAdjustedRating ==
  /\ Pending("adjusted")
  /\ Returns(CalculateAdjustedRating(score_call.ratings,
                                     score_call.prior_avg))
  /\ UNCHANGED callFrame

CallEstablishmentScores ==
  /\ Pending("scores")
  /\ Returns(EstablishmentScores({}, score_call.enriched,
                                 [num |-> 4, den |-> 1], 1))
  /\ UNCHANGED callFrame

InitScoreFn ==
  /\ InitUnify
  /\ InitLs
  /\ InitEnrichment
  /\ InitValidation
  /\ InitCall
  /\ InitTranslation
  /\ establishments = [e \in Establishments |-> [_id |-> e]]
  /\ score_clock = 0
  /\ last_scored = NotScored
  /\ score_call \in ScoreCalls
  /\ InitRun

NextScoreFn ==
  \/ CallOnlineCommunicationScore
  \/ CallNpsScore
  \/ CallCompositeScore
  \/ CallAdjustedRating
  \/ CallEstablishmentScores

SpecScoreFn == InitScoreFn /\ [][NextScoreFn]_vars

\* ------------------------------------------------------- scoring runs
\* a review of establishment 1 and one of establishment 2 as the
\* standardization stage stores them, with a rating or without one
EstablishmentOf == <<1, 2>>
RatedSamples ==
  {[_id |-> i, establishment_id |-> EstablishmentOf[i], rating |-> r] :
     i \in DOMAIN EstablishmentOf, r \in {0, 3, 5}}

\* what the enrichment stage upserts for a review: attributes that are
\* mentioned and no complaint, or nothing mentioned by a complaint with a
\* response
EnrichedSamples ==
  {[_id |-> i, establishment_id |-> EstablishmentOf[i],
    staff_satisfaction |-> 3, scheduling |-> 0, treatment_satisfaction |-> 3,
    onsite_communication |-> 2, facility |-> 0, post_op |-> 0,
    affordability |-> 3, recommendation |-> 1, is_complaint |-> 0,
    has_response |-> 1, has_constructive_response |-> 1] :
     i \in DOMAIN EstablishmentOf}
  \cup
  {[_id |-> i, establishment_id |-> EstablishmentOf[i],
    staff_satisfaction |-> 0, scheduling |-> 0, treatment_satisfaction |-> 0,
    onsite_communication |-> 0, facility |-> 0, post_op |-> 0,
    affordability |-> 0, recommendation |-> 0, is_complaint |-> 1,
    has_response |-> 1, has_constructive_response |-> 0] :
     i \in DOMAIN EstablishmentOf}

InitScore ==
  /\ InitUnify
  /\ InitLs
  /\ InitEnrichment
  /\ InitValidation
  /\ InitCall
  /\ InitTranslation
  /\ InitScoring
  /\ InitRun

NextScore ==
  \/ \E doc \in RatedSamples : StoreRatedReview(doc)
  \/ \E doc \in EnrichedSamples : UpsertEnrichedReview(doc)
  \/ \E f \in Filters, failing \in SUBSET Establishments :
       ProcessAllEstablishments(f, failing)

SpecScore == InitScore /\ [][NextScore]_vars

\* ------------------------------------------------- configuration files
runFrame == <<unifyFrame, lsVars, enVars, valVars, callVars, trVars,
              scoreVars>>

\* OperationsController._load_tokens and initialize
Initialize(connect) ==
  /\ controller = "none"
  /\ controller' =
       IF {"mongodb_connection", "apify_token"} \subseteq files
          /\ connect = "ok"
       THEN "ready" ELSE "failed"
  /\ UNCHANGED <<files, processor, cmd>>
  /\ UNCHANGED runFrame

\* ReviewEnrichmentProcessor.__init__: _load_config writes and reads a
\* default configuration when the file is not found; _setup_genai raises
\* when the key file is not found
CreateProcessor ==
  /\ processor.state = "none"
  /\ files' = files \cup {"enrichment_config"}
  /\ processor' =
       [state |-> IF "google_api_key" \in files THEN "created" ELSE "failed",
        config |-> IF "enrichment_config" \in files THEN "file"
                   ELSE "default"]
  /\ UNCHANGED <<controller, cmd>>
  /\ UNCHANGED runFrame

\* ReviewEnrichmentProcessor._load_tokens and initialize
InitializeProcessor(connect) ==
  /\ processor.state = "created"
  /\ processor' =
       [processor EXCEPT !.state =
          IF "mongodb_connection" \in files /\ connect = "ok"
          THEN "ready" ELSE "failed"]
  /\ UNCHANGED <<files, controller, cmd>>
  /\ UNCHANGED runFrame

\* _translate_text opens the key file at every call
Translator(outcome) ==
  IF "google_api_key" \in files THEN outcome ELSE "nokey"

\* the stores after a scrape and a unification run; any of the files may
\* be missing
InitConfig ==
  /\ google = { GoogleDoc(1, 1, G1), GoogleDoc(3, 2, G2) }
  /\ trustpilot = { TrustpilotDoc(2, 1, T1) }
  /\ next_oid = 4
  /\ unified_reviews =
       { StandardizeGoogleReview(GoogleDoc(1, 1, G1), 1),
         StandardizeGoogleReview(GoogleDoc(3, 2, G2), 1),
         StandardizeTrustpilotReview(TrustpilotDoc(2, 1, T1), 1) }
  /\ pc = [p \in Procs |-> "idle"]
  /\ existing_unified_ids = [p \in Procs |-> {}]
  /\ query_filter = [p \in Procs |-> {}]
  /\ cursor = [p \in Procs |-> 0]
  /\ reviews_to_insert = [p \in Procs |-> <<>>]
  /\ unified_count = [p \in Procs |-> ZeroCount]
  /\ insert_errors = [p \in Procs |-> 0]
  /\ result = [p \in Procs |-> "none"]
  /\ last_run = NoRun
  /\ InitLs
  /\ InitEnrichment
  /\ InitValidation
  /\ InitCall
  /\ InitTranslation
  /\ InitScoring
  /\ files \in SUBSET ConfigFiles
  /\ controller = "none"
  /\ processor = NoProcessor
  /\ cmd = NoCommand

\* the standardize command and the set-up of an enrichment run
NextConfig ==
  \/ \E connect \in {"ok", "error"} : Initialize(connect)
  \/ controller = "ready" /\ LsStart({}, "ok")
  \/ controller = "ready" /\ LsFetchPage
  \/ controller = "ready" /\ LsSkip
  \/ controller = "ready"
       /\ \E t \in {"ok", "error"} : LsStandardize("ok", Translator(t), {})
  \/ controller = "ready" /\ LsPageEnd({})
  \/ controller = "ready" /\ LsFinish({})
  \/ CreateProcessor
  \/ \E connect \in {"ok", "error"} : InitializeProcessor(connect)
  \/ processor.state = "ready" /\ EnrichStart({}, TRUE, AllGroups)

SpecConfig == InitConfig /\ [][NextConfig]_vars

\* --------------------------------------------------- combined commands
\* scrape_and_unify and scrape_unify_and_standardize: cmd.pc is the stage
\* the command is in, cmd.ran the stages that returned, each with the
\* value it returned, cmd.success what the command returns
Commands == {"scrape-and-unify", "full-pipeline"}
MaxScraped == 4        \* raw documents stored when the scraping stage ends
StagesOf(name) ==
  IF name = "full-pipeline" THEN <<"scrape", "unify", "standardize">>
  ELSE <<"scrape", "unify">>

cmdFrame == <<files, controller, processor>>

\* mutant: the value a stage returned is not looked at
StageReturns_Ignored(stage, ok) ==
  LET ran == Append(cmd.ran, [stage |-> stage, ok |-> ok])
      more == Len(ran) < Len(StagesOf(cmd.name)) IN
    cmd' = [cmd EXCEPT !.ran = ran,
                       !.todo = <<>>,
                       !.pc = IF more THEN StagesOf(cmd.name)[Len(ran) + 1]
                              ELSE "done",
                       !.success = IF more THEN "none" ELSE "true"]

\* "if not self.<stage>(...): return False", then the next stage or
\* "return True"
StageReturns(stage, ok) ==
  LET ran == Append(cmd.ran, [stage |-> stage, ok |-> ok])
      more == ok /\ Len(ran) < Len(StagesOf(cmd.name)) IN
    cmd' = [cmd EXCEPT !.ran = ran,
                       !.todo = <<>>,
                       !.pc = IF more THEN StagesOf(cmd.name)[Len(ran) + 1]
                              ELSE "done",
                       !.success = IF more THEN "none"
                                   ELSE IF ok THEN "true" ELSE "false"]

\* main dispatches a combined command after initialize() returned True
StartCommand(name) ==
  /\ controller = "ready"
  /\ cmd.pc = "idle"
  /\ cmd' = [NoCommand EXCEPT !.name = name, !.pc = "scrape"]
  /\ UNCHANGED cmdFrame
  /\ UNCHANGED runFrame

\* scrape_reviews up to the scraping loop: the Excel file is missing or
\* lists nothing, or a store call on the establishments raises (False);
\* otherwise the establishments to scrape are known
ScrapeSetup(outcome) ==
  /\ cmd.pc = "scrape"
  /\ IF outcome = "ok"
     THEN cmd' = [cmd EXCEPT !.pc = "scraping", !.todo = <<1, 2>>]
     ELSE StageReturns("scrape", FALSE)
  /\ UNCHANGED cmdFrame
  /\ UNCHANGED runFrame

\* one turn of the scraping loop: scrape and save the Google reviews, then
\* the Trustpilot reviews; an exception of either scrape or save ends the
\* turn ("continue") and keeps what was saved before it
ScrapeEstablishment(google_reviews, trustpilot_reviews, failure) ==
  /\ cmd.pc = "scraping"
  /\ cmd.todo # <<>>
  /\ LET establishment_id == Head(cmd.todo)
         g == IF failure = "google" THEN <<>> ELSE google_reviews
         t == IF failure = "none" THEN trustpilot_reviews ELSE <<>> IN
       /\ next_oid + Len(g) + Len(t) - 1 <= MaxScraped
       /\ google' = google \cup
            { GoogleDoc(next_oid + i - 1, establishment_id, g[i])
              : i \in 1..Len(g) }
       /\ trustpilot' = trustpilot \cup
            { TrustpilotDoc(next_oid + Len(g) + i - 1, establishment_id, t[i])
              : i \in 1..Len(t) }
       /\ next_oid' = next_oid + Len(g) + Len(t)
  /\ cmd' = [cmd EXCEPT !.todo = Tail(cmd.todo)]
  /\ last_run' = NoRun
  /\ UNCHANGED cmdFrame
  /\ UNCHANGED <<unified_reviews, pc, existing_unified_ids, query_filter,
                 cursor, reviews_to_insert, unified_count, insert_errors,
                 result>>
  /\ UNCHANGED <<lsVars, enVars, valVars, callVars, trVars, scoreVars>>

\* the scraping loop is over: the summary is logged, True is returned
ScrapeReturns ==
  /\ cmd.pc = "scraping"
  /\ cmd.todo = <<>>
  /\ StageReturns("scrape", TRUE)
  /\ UNCHANGED cmdFrame
  /\ UNCHANGED runFrame

\* unify_reviews returns: True after unify_reviews_incremental returned
\* (the statistics cannot raise), False after it raised an Exception
UnifyReturns ==
  /\ cmd.pc = "unify"
  /\ pc[1] = "idle"
  /\ result[1] \in {"ok", "failed"}
  /\ StageReturns("unify", result[1] = "ok")
  /\ UNCHANGED cmdFrame
  /\ UNCHANGED runFrame

\* count_documents raises before the page loop: nothing catches it in
\* standardize_reviews_incremental, standardize_reviews returns False
LsCountFails ==
  /\ ls_pc = "idle"
  /\ \A p \in Procs : pc[p] = "idle"
  /\ ls_result' = "failed"
  /\ UNCHANGED <<ls_unified_reviews, ls_pc, existing_ls_ids, ls_filter,
                 total_reviews_to_process, processed_count,
                 unified_reviews_batch, page_pos, ls_reviews_to_insert,
                 translation_cache, external_calls, ls_fetch_failed,
                 ls_interrupts>>
  /\ UNCHANGED notLs

\* standardize_reviews returns
StandardizeReturns ==
  /\ cmd.pc = "standardize"
  /\ ls_pc = "idle"
  /\ ls_result \in {"ok", "failed"}
  /\ StageReturns("standardize", ls_result = "ok")
  /\ UNCHANGED cmdFrame
  /\ UNCHANGED runFrame

\* a KeyboardInterrupt left the running stage: main catches it, the
\* command returns nothing
CommandInterrupted ==
  /\ \/ cmd.pc = "unify" /\ result[1] = "interrupted"
     \/ cmd.pc = "standardize" /\ ls_result = "interrupted"
  /\ cmd' = [cmd EXCEPT !.pc = "done", !.success = "interrupted"]
  /\ UNCHANGED cmdFrame
  /\ UNCHANGED runFrame

ScrapedGoogle == { <<>>, <<G1>> }
ScrapedTrustpilot == { <<>>, <<T1>> }
InUnify == cmd.pc = "unify"
InStandardize == cmd.pc = "standardize"

\* the stores after an earlier run of the pipeline over one review of each
\* platform
InitCommand ==
  /\ google = { GoogleDoc(1, 1, G1) }
  /\ trustpilot = { TrustpilotDoc(2, 1, T1) }
  /\ next_oid = 3
  /\ unified_reviews =
       { StandardizeGoogleReview(GoogleDoc(1, 1, G1), 1),
         StandardizeTrustpilotReview(TrustpilotDoc(2, 1, T1), 1) }
  /\ pc = [p \in Procs |-> "idle"]
  /\ existing_unified_ids = [p \in Procs |-> {}]
  /\ query_filter = [p \in Procs |-> {}]
  /\ cursor = [p \in Procs |-> 0]
  /\ reviews_to_insert = [p \in Procs |-> <<>>]
  /\ unified_count = [p \in Procs |-> ZeroCount]
  /\ insert_errors = [p \in Procs |-> 0]
  /\ result = [p \in Procs |-> "none"]
  /\ last_run = NoRun
  /\ ls_unified_reviews =
       { StandardizeGoogleReviewLs(
           StandardizeGoogleReview(GoogleDoc(1, 1, G1), 1),
           "ok", "ok", {}).doc,
         StandardizeTrustpilotReviewLs(
           StandardizeTrustpilotReview(TrustpilotDoc(2, 1, T1), 1),
           "ok", "ok", {}).doc }
  /\ ls_pc = "idle"
  /\ existing_ls_ids = {}
  /\ ls_filter = {}
  /\ total_reviews_to_process = 0
  /\ processed_count = 0
  /\ unified_reviews_batch = <<>>
  /\ page_pos = 0
  /\ ls_reviews_to_insert = <<>>
  /\ translation_cache = {}
  /\ external_calls = {}
  /\ ls_fetch_failed = FALSE
  /\ ls_interrupts = {}
  /\ ls_result = "none"
  /\ InitEnrichment
  /\ InitValidation
  /\ InitCall
  /\ InitTranslation
  /\ InitScoring
  /\ InitRun

\* one combined command
NextCommand ==
  \/ \E connect \in {"ok", "error"} : Initialize(connect)
  \/ \E name \in Commands : StartCommand(name)
  \/ \E outcome \in {"ok", "no_file", "empty", "error"} : ScrapeSetup(outcome)
  \/ \E g \in ScrapedGoogle, t \in ScrapedTrustpilot,
        failure \in {"none", "google", "trustpilot"} :
       ScrapeEstablishment(g, t, failure)
  \/ ScrapeReturns
  \/ InUnify /\ result[1] = "none" /\ UnifyStart(1, {})
  \/ InUnify /\ result[1] = "none" /\ UnifyFetchFails(1, {})
  \/ InUnify /\ GoogleSkip(1)
  \/ InUnify /\ GoogleMap(1)
  \/ InUnify /\ \E r \in Rejections(1) : GoogleFlush(1, r)
  \/ InUnify /\ GoogleDone(1)
  \/ InUnify /\ TrustpilotSkip(1)
  \/ InUnify /\ TrustpilotMap(1)
  \/ InUnify /\ \E r \in Rejections(1) : TrustpilotFlush(1, r)
  \/ InUnify /\ \E r \in Rejections(1) : UnifyFinish(1, r)
  \/ InUnify /\ UnifyInterrupt(1)
  \/ UnifyReturns
  \/ InStandardize /\ ls_result = "none" /\ LsStart({}, "ok")
  \/ InStandardize /\ ls_result = "none" /\ LsCountFails
  \/ InStandardize /\ LsFetchPage
  \/ InStandardize /\ LsSkip
  \/ InStandardize /\ LsStandardize("ok", "ok", {})
  \/ InStandardize /\ LsPageEnd({})
  \/ InStandardize /\ LsFinish({})
  \/ InStandardize /\ LsInterrupt({})
  \/ StandardizeReturns
  \/ CommandInterrupted

SpecCommand == InitCommand /\ [][NextCommand]_vars

\* ------------------------------------------- unification runs in a row
\* each process runs the unification stage at most once, one run after the
\* other, each over the raw records of its own filter; no write fails
RunFilters == { {}, {1}, {2}, {1, 2} }
NextOrder ==
  \E p \in Procs :
    \/ \E f \in RunFilters :
         /\ result[p] = "none"
         /\ \A q \in Procs : pc[q] = "idle"
         /\ UnifyStart(p, f)
    \/ GoogleSkip(p)
    \/ GoogleMap(p)
    \/ GoogleFlush(p, {})
    \/ GoogleDone(p)
    \/ TrustpilotSkip(p)
    \/ TrustpilotMap(p)
    \/ TrustpilotFlush(p, {})
    \/ UnifyFinish(p, {})

SpecOrder == InitStages /\ [][NextOrder]_vars

\* ------------------------------------------------- user interruptions
\* a unification run, then standardization runs in which the user may
\* interrupt at any point: in the existing-identity fetch, in language
\* detection, or anywhere else in the loop (translation included)
NextInterrupt ==
  \/ result[1] = "none" /\ UnifyStart(1, {})
  \/ GoogleMap(1)
  \/ GoogleFlush(1, {})
  \/ GoogleDone(1)
  \/ TrustpilotMap(1)
  \/ UnifyFinish(1, {})
  \/ \E f \in Filters, fetch \in {"ok", "interrupt"} :
       result[1] = "ok" /\ LsStart(f, fetch)
  \/ LsFetchPage
  \/ LsSkip
  \/ \E d \in {"ok", "interrupt"}, t \in {"ok", "error"} :
       LsStandardize(d, t, {})
  \/ LsPageEnd({})
  \/ LsFinish({})
  \/ LsInterrupt({})

SpecInterrupt == InitStages /\ [][NextInterrupt]_vars

\* ------------------------------------------------- the whole pipeline
\* scrapes, unification runs, standardization runs and enrichment runs of
\* the sentiment family from an empty database, in any order and number;
\* every store call and external call succeeds
NextContain ==
  \/ \E e \in Establishments : SaveGoogleReviews(e, <<G1>>)
  \/ SaveTrustpilotReviews(1, <<T1>>)
  \/ UnifyStart(1, {})
  \/ GoogleSkip(1)
  \/ GoogleMap(1)
  \/ GoogleFlush(1, {})
  \/ GoogleDone(1)
  \/ TrustpilotSkip(1)
  \/ TrustpilotMap(1)
  \/ TrustpilotFlush(1, {})
  \/ UnifyFinish(1, {})
  \/ LsStart({}, "ok")
  \/ LsFetchPage
  \/ LsSkip
  \/ LsStandardize("ok", "ok", {})
  \/ LsPageEnd({})
  \/ LsFinish({})
  \/ EnrichStart({}, TRUE, {"sentiment"})
  \/ \E a \in Replies(RunKeys, JDict([staff_satisfaction |-> JInt(3)])) :
       ProcessSentimentBatch(a)
  \/ UpsertCurrent(Len(en_reviews))
  \/ FinalUpsert(Len(en_reviews))

SpecContain == Init /\ [][NextContain]_vars

\* ============================================================== claims

\* C1 -- unification is idempotent: while a run goes on right after a run
\* with the same arguments that completed without a failed insert (no scrape
\* in between), no step writes to the unified store and the counters stay 0,
\* so the run returns 0 for both platforms and leaves the store as it was.
C1_IdempotentSecondRun ==
  [][\A p \in Procs :
       (result[p] = "running" /\ last_run.clean
          /\ last_run.filter = query_filter[p])
       => /\ unified_reviews' = unified_reviews
          /\ unified_count'[p] = ZeroCount]_vars

\* a second run, after a clean first run that wrote several batches, has
\* walked past the Google documents
C1_Witness ==
  /\ pc[1] = "trustpilot"
  /\ last_run.clean
  /\ last_run.filter = query_filter[1]
  /\ Cardinality(unified_reviews) = 3
  /\ trustpilot # {}

\* the step in which process p writes a full buffer inside a loop, or the
\* remaining buffer at the end
UnifyWrites(p) ==
  /\ result'[p] # "interrupted"
  /\ \/ pc[p] \in {"google_flush", "trustpilot_flush"} /\ pc'[p] # pc[p]
     \/ pc[p] = "trustpilot" /\ pc'[p] = "idle"

\* C2 -- concurrent unification runs: the unified store never holds two
\* documents with one identity; a write puts every document of its batch whose
\* identity is not yet in the store into the store, whatever collides in the
\* same batch; and once both runs have finished, every raw record selected by
\* the filter of one of them has exactly one unified document.
C2_ConcurrentRuns ==
  /\ [](\A d1 \in unified_reviews, d2 \in unified_reviews :
         d1._id = d2._id => d1 = d2)
  /\ []((\A p \in Procs : result[p] = "ok") =>
         \A r \in google \cup trustpilot :
           (\E p \in Procs : r \in Find(google \cup trustpilot, query_filter[p]))
           => Cardinality({d \in unified_reviews : d._id = r._id}) = 1)
  /\ [][\A p \in Procs :
          UnifyWrites(p)
          => SeqIds(reviews_to_insert[p]) \subseteq Ids(unified_reviews')]_vars

\* both runs are over; run 2 mapped both Google documents in one batch,
\* document 1 had been written by run 1 and document 3 was written by run 2
C2_Witness ==
  /\ \A p \in Procs : result[p] = "ok"
  /\ unified_count[2].google = 2
  /\ \E d \in unified_reviews : d._id = 1 /\ d.created_at = 1
  /\ \E d \in unified_reviews : d._id = 3 /\ d.created_at = 2

\* C3 -- the canonical identity is deterministic: mapping a stored raw record
\* at two different times gives the same identity, the identity of a unified
\* document is the one its raw record maps to, and no stored raw record is
\* ever changed or removed.
C3_IdentityDeterministic ==
  /\ [](\A t1 \in Procs, t2 \in Procs :
         /\ \A r \in google :
              StandardizeGoogleReview(r, t1)._id
                = StandardizeGoogleReview(r, t2)._id
         /\ \A r \in trustpilot :
              StandardizeTrustpilotReview(r, t1)._id
                = StandardizeTrustpilotReview(r, t2)._id)
  /\ [](\A d \in unified_reviews :
         \/ \E r \in google : d = StandardizeGoogleReview(r, d.created_at)
         \/ \E r \in trustpilot :
              d = StandardizeTrustpilotReview(r, d.created_at))
  /\ [][google \subseteq google' /\ trustpilot \subseteq trustpilot']_vars

C3_Witness ==
  /\ \E d \in unified_reviews : d.platform = "google"
  /\ \E d \in unified_reviews : d.platform = "trustpilot"
  /\ pc[1] = "google"
  /\ existing_unified_ids[1] # {}

\* C4 -- at most one canonical review per source-native identifier: two
\* unified documents of one platform that carry the same non-empty
\* source-native review identifier are the same document.
C4_OnePerSourceId ==
  \A d1 \in unified_reviews, d2 \in unified_reviews :
    (d1.platform = d2.platform
       /\ d1.original_review_id = d2.original_review_id
       /\ d1.original_review_id # NoId)
    => d1._id = d2._id

\* C5 -- a stage whose existing-identity fetch failed fails fast: unification
\* reports failure and writes nothing; standardization (taken where the
\* target store holds documents, so that an empty identity set is wrong)
\* makes no external translation call, buffers and writes nothing, and
\* reports failure.
C5_FailFast ==
  /\ []((ls_fetch_failed /\ ls_unified_reviews # {}) =>
         /\ external_calls = {}
         /\ ls_reviews_to_insert = <<>>
         /\ ls_result # "ok")
  /\ [][(ls_fetch_failed' => ls_unified_reviews' = ls_unified_reviews)
        /\ \A p \in Procs :
             (result[p] # "failed" /\ result'[p] = "failed")
             => unified_reviews' = unified_reviews]_vars

\* ... and the write raises
UnifyWriteFails(p) ==
  /\ UnifyWrites(p)
  /\ \E d \in SeqDocs(reviews_to_insert[p]) :
       d \notin unified_reviews' \/ d._id \in Ids(unified_reviews)
LsWriteFails ==
  /\ ls_pc = "records" /\ ls_pc' # "records"
  /\ ls_result' # "interrupted"
  /\ \E d \in SeqDocs(ls_reviews_to_insert) :
       d \notin ls_unified_reviews' \/ d._id \in Ids(ls_unified_reviews)

C7_InterruptFlushes ==
  [][/\ \A p \in Procs :
          (result[p] = "running" /\ result'[p] = "interrupted")
          => SeqIds(reviews_to_insert[p]) \subseteq Ids(unified_reviews')
     /\ (ls_result = "running" /\ ls_result' = "interrupted")
          => \/ SeqIds(ls_reviews_to_insert) \subseteq Ids(ls_unified_reviews')
             \/ \E r \in LsRejections : r # {} /\ LsInterrupt(r)]_vars

\* C8 -- a review of an incremental enrichment run that got no
\* model-extracted attribute in the run has no enrichment document when the
\* run returns, and the next incremental run selects it again.
C8_SkippedNotMarked ==
  [][(en_pc = "final" /\ en_incremental /\ en_result' = "ok")
     => \A i \in 1..Len(en_reviews) :
          Str(en_reviews[i]._id) \notin DOMAIN enrichment_data
          => /\ en_reviews[i]._id \notin Ids(enriched_reviews')
             /\ en_reviews[i] \in SeqDocs(GetReviewsToProcess({}, TRUE))']_vars

\* C9 -- at most once: the external translator is not invoked for an
\* identity that already has a standardized document.
C9_TranslateAtMostOnce ==
  [][\A i \in external_calls' \ external_calls :
       i \notin Ids(ls_unified_reviews)]_vars

\* C10 -- an enrichment document that carries a response-quality flag has
\* has_response = 1 and is_complaint = 1.
C10_FlagsOnlyOnAnsweredComplaints ==
  \A d \in enriched_reviews :
    (DOMAIN d \cap ResponseAttributes # {})
    => /\ "has_response" \in DOMAIN d /\ d.has_response = 1
       /\ "is_complaint" \in DOMAIN d /\ d.is_complaint = 1

\* C11 -- every review of a response-quality prompt has a non-empty owner
\* response and is_complaint = 1 on its stored enrichment document; and when
\* the response family starts, every review with an owner response that the
\* run itself classified as a complaint is among the eligible reviews.
C11_ResponsePromptEligibility ==
  /\ [](en_prompt.family = "response" =>
         \A id \in en_prompt.ids :
           /\ \E r \in SeqDocs(en_reviews) :
                Str(r._id) = id /\ r.response_from_owner_text # NoText
           /\ \E d \in enriched_reviews :
                /\ d._id = ObjectId(id)
                /\ "is_complaint" \in DOMAIN d
                /\ d.is_complaint = 1)
  /\ [](en_pc = "response" =>
         \A r \in SeqDocs(en_reviews) :
           (/\ r.response_from_owner_text # NoText
            /\ Str(r._id) \in DOMAIN enrichment_data
            /\ "is_complaint" \in DOMAIN enrichment_data[Str(r._id)]
            /\ enrichment_data[Str(r._id)].is_complaint = 1)
           => r \in SeqDocs(EligibleReviews))
  /\ [][(en_pc = "response" /\ en_pc' = "final" /\ EligibleReviews # <<>>)
        => en_prompt'.family = "response"]_vars

\* an incremental run classified review 1 as a complaint and then sent it in
\* a response-quality prompt
C11_Witness ==
  /\ en_incremental
  /\ en_pc = "final"
  /\ en_prompt.family = "response"
  /\ en_prompt.ids = {Str(1)}
  /\ Str(1) \in DOMAIN enrichment_data
  /\ "is_complaint" \in DOMAIN enrichment_data[Str(1)]

\* the entries a family accepts: an integer within the range of the family
InRange(value, family) ==
  /\ value.kind = "int"
  /\ 0 <= value.int
  /\ value.int <= (IF family = "sentiment" THEN 3 ELSE 1)
\* the valid (attribute, value) entries of what the output holds for a review
ExactAttributes(attributes, family) ==
  IF attributes.kind = "dict"
  THEN [a \in {n \in DOMAIN attributes.dict :
                  /\ n \in ExpectedAttributes(family)
                  /\ InRange(attributes.dict[n], family)}
          |-> attributes.dict[a].int]
  ELSE IF family = "complaint" /\ InRange(attributes, family)
  THEN [is_complaint |-> attributes.int]
  ELSE EmptyDict

\* C12 -- validation is exact: the validated map holds precisely the entries
\* of the output whose attribute name is expected and whose value is an
\* integer within the family range, with the values as given, and a review
\* without a valid entry is not in the map.
C12_ValidationExact ==
  val_pc = "returned" =>
    /\ DOMAIN val_validated =
         {i \in DOMAIN val_response_data :
            DOMAIN ExactAttributes(val_response_data[i], val_family) # {}}
    /\ \A i \in DOMAIN val_validated :
         val_validated[i] = ExactAttributes(val_response_data[i], val_family)

\* C13: the token budget is enforced before every external extraction
\* call: generate_content is only ever called with a prompt whose length in
\* characters divided by 4, rounded down, does not exceed 70% of 1,000,000;
\* a call of _call_gemini_batch with a prompt over that budget returns the
\* empty result without calling the model; a prompt within the budget is
\* passed to the model once and as it was built.
OverTokenBudget(prompt) == prompt.len \div 4 > (70 * 1000000) \div 100
C13_TokenBudget ==
  /\ \A i \in DOMAIN call_sent :
       call_sent[i] = call_prompt /\ ~OverTokenBudget(call_sent[i])
  /\ call_pc = "returned" =>
       IF OverTokenBudget(call_prompt)
       THEN call_sent = <<>> /\ call_result = EmptyDict
       ELSE call_sent = <<call_prompt>>
C13_Witness ==
  /\ call_pc = "returned"
  /\ call_prompt.len = 4 * MAX_TOKENS + 4
  /\ call_response.status = "ok"
  /\ call_response.text = <<"{", "e", "}">>
  /\ call_result = EmptyDict

\* C14: a failed extraction call does not abort the run. When the call of a
\* batch fails (generate_content raises, the response is empty, or no parse
\* of the text succeeds) the batch adds nothing to enrichment_data, the run
\* is still running, and the loop moves to the next batch of the family or
\* to the stage that follows the family; and every batch step, whatever
\* happened before, builds the prompt of the batch at its position and
\* passes it to the model.
Unparsable(text) ==
  ~IsObject(StripFence(text)) /\ ~IsObject(ReSearch(text))
CallFailed(response) ==
  \/ response.status = "raises"
  \/ response.status = "ok" /\ response.text = <<>>
  \/ response.status = "ok" /\ Unparsable(response.text)
FamilyReviews == IF en_pc = "response" THEN EligibleReviews ELSE en_reviews
BatchCall ==
  /\ en_pc \in {"sentiment", "complaint", "response"}
  /\ FamilyReviews # <<>>
  /\ <<en_pc, en_pos>>' # <<en_pc, en_pos>>
StageAfter ==
  CASE en_pc = "sentiment" ->
         IF "complaint" \in en_groups THEN "complaint" ELSE "upsert"
    [] en_pc = "complaint" -> "upsert"
    [] OTHER -> "final"
C14_CallFailureSkipsBatch ==
  /\ [][(BatchCall /\ CallFailed(en_response')) =>
          /\ enrichment_data' = enrichment_data
          /\ enriched_reviews' = enriched_reviews
          /\ en_result' = "running"
          /\ IF en_pos + BatchSize < Len(FamilyReviews)
             THEN en_pc' = en_pc /\ en_pos' = en_pos + BatchSize
             ELSE en_pc' = StageAfter /\ en_pos' = 0]_vars
  /\ [][BatchCall =>
          /\ en_prompt'.family = en_pc
          /\ en_prompt'.ids =
               {Str(i) : i \in SeqIds(Batch(FamilyReviews, en_pos))}
          /\ en_prompt'.len \div 4 <= MAX_TOKENS
          /\ en_response'.status \in {"ok", "raises"}]_vars
  /\ [][(en_pc = "upsert" /\ enrichment_data = EmptyDict
          /\ en_pc' # en_pc) =>
          /\ en_result' = "running"
          /\ en_pc' = IF "response" \in en_groups THEN "response"
                      ELSE "final"]_vars
\* the call of the first complaint batch failed on a truncated answer and
\* the run is at the second batch
C14_Witness ==
  /\ en_pc = "complaint"
  /\ en_pos = BatchSize
  /\ en_result = "running"
  /\ en_prompt.family = "complaint"
  /\ en_response = [status |-> "ok", text |-> <<"{", "e">>]
  /\ enrichment_data = EmptyDict

\* C15: parsing is two-stage. The strict parse, of the response without
\* its surrounding code fence, is always tried first; the fallback is tried
\* only after the strict parse failed, and parses the raw response from its
\* first opening brace to its last closing brace; when that fails too, or
\* there is no such substring, the result is empty. A response that parses
\* strictly returns the strict result and never reaches the fallback.
BraceSpans(text) ==
  {SubSeq(text, i, j) : i \in {i \in 1..Len(text) :
                                /\ text[i] = "{"
                                /\ \A k \in 1..(i - 1) : text[k] # "{"},
                       j \in {j \in 1..Len(text) :
                                /\ text[j] = "}"
                                /\ \A k \in (j + 1)..Len(text) : text[k] # "}"}}
Decoded(text) ==
  IF \E j \in 1..Len(text) : text[j] = "e" THEN call_response.data
  ELSE EmptyDict
Inked(text) == {j \in 1..Len(text) : text[j] # NL}
Unfenced(text) ==
  IF Inked(text) = {} THEN <<>>
  ELSE LET lo == CHOOSE j \in Inked(text) : \A k \in Inked(text) : j <= k
           hi == CHOOSE j \in Inked(text) : \A k \in Inked(text) : k <= j
           from == IF text[lo] \in {FenceJson, Fence} THEN lo + 1 ELSE lo
           to == IF from <= hi /\ text[hi] = Fence THEN hi - 1 ELSE hi
           inner == SubSeq(text, from, to)
       IN IF Inked(inner) = {} THEN <<>>
          ELSE SubSeq(inner,
                      CHOOSE j \in Inked(inner) :
                        \A k \in Inked(inner) : j <= k,
                      CHOOSE j \in Inked(inner) :
                        \A k \in Inked(inner) : k <= j)
C15_TwoStageParse ==
  /\ call_tried \in {<<>>, <<"strict">>, <<"strict", "fallback">>}
  /\ call_tried = <<"strict", "fallback">> =>
       ~IsObject(Unfenced(call_response.text))
  /\ (call_pc = "returned" /\ call_tried # <<>>) =>
       IF IsObject(Unfenced(call_response.text))
       THEN /\ call_tried = <<"strict">>
            /\ call_result = Decoded(Unfenced(call_response.text))
       ELSE /\ call_tried = <<"strict", "fallback">>
            /\ IF \E span \in BraceSpans(call_response.text) :
                    Len(span) >= 2 /\ IsObject(span)
               THEN \A span \in BraceSpans(call_response.text) :
                      Len(span) >= 2 => call_result = Decoded(span)
               ELSE call_result = EmptyDict
  /\ call_pc = "returned" =>
       call_result = CallGeminiBatch(call_prompt, call_response)
\* prose around an object: the strict parse failed, the fallback recovered
\* the object
C15_Witness ==
  /\ call_pc = "returned"
  /\ call_response.text = <<"w", "{", "e", "}", "w">>
  /\ call_tried = <<"strict", "fallback">>
  /\ call_result = call_response.data
  /\ call_result # EmptyDict

\* C16: a storage write failure aborts no stage. For enrichment: whatever
\* the store does at the upsert before the response family, the run goes on
\* to the response family (or to the final upsert) and is still running;
\* and whatever the store does at the final upsert, the run does not end
\* in failure.
C16_WriteFailureAbortsNoStage ==
  /\ [][(en_pc = "upsert" /\ en_pc' # en_pc) =>
          /\ en_result' = "running"
          /\ en_pc' = IF "response" \in en_groups THEN "response"
                      ELSE "final"]_vars
  /\ [][(en_pc = "final" /\ en_pc' # en_pc) => en_result' = "ok"]_vars

\* C17: enrichment writes are merges. No step removes an enrichment
\* document or an extracted attribute from one, and a step changes the
\* stored value of an attribute only if the upsert carries that attribute
\* for that review: the attributes of the families the upsert does not
\* carry stay as they were. There is one document per identity.
ExtractedAttributes ==
  SentimentAttributes \cup {"is_complaint"} \cup ResponseAttributes
Carried(oid, attribute) ==
  /\ Str(oid) \in DOMAIN enrichment_data
  /\ attribute \in DOMAIN enrichment_data[Str(oid)]
C17_UpsertMerges ==
  /\ [](\A d, e \in enriched_reviews : d._id = e._id => d = e)
  /\ [][\A d \in enriched_reviews :
          \E e \in enriched_reviews' :
            /\ e._id = d._id
            /\ \A a \in ExtractedAttributes \cap DOMAIN d :
                 /\ a \in DOMAIN e
                 /\ Carried(d._id, a) \/ e[a] = d[a]]_vars
\* the upsert of a run of the complaint family has written is_complaint on
\* a document that holds the sentiment attribute of an earlier run
C17_Witness ==
  /\ en_pc = "final"
  /\ en_groups = {"complaint"}
  /\ \E d \in enriched_reviews :
       /\ "staff_satisfaction" \in DOMAIN d
       /\ "is_complaint" \in DOMAIN d
       /\ Carried(d._id, "is_complaint")
       /\ ~Carried(d._id, "staff_satisfaction")

\* C18: within one process the translation cache is consulted before every
\* external translation call: a call of _translate_text that reaches the
\* translator has looked into the cache and did not find its text there;
\* and once _translate_text(T) has succeeded, no later _translate_text(T),
\* direct or for the owner response of a Google review, calls the
\* translator, and each returns the result of the first.
Succeeded(call) ==
  call.op = "translate" /\ call.called /\ call.translator = "ok"
C18_CacheBeforeTranslator ==
  /\ \A i \in DOMAIN tr_log :
       (tr_log[i].op = "translate" /\ tr_log[i].called) =>
         /\ tr_log[i].looked
         /\ \A e \in tr_log[i].before : e[1] # tr_log[i].text
  /\ \A i, j \in DOMAIN tr_log :
       (i < j /\ Succeeded(tr_log[i]) /\ tr_log[j].text = tr_log[i].text
        /\ (\/ tr_log[j].op = "translate"
            \/ /\ tr_log[j].op = "standardize"
               /\ tr_log[j].review.platform = "google"
               /\ tr_log[j].detector = "ok")) =>
         /\ ~tr_log[j].called
         /\ tr_log[j].out = tr_log[i].out
\* "merhaba" was translated, and asked for again when the translator was
\* down: the second call answered from the cache
C18_Witness ==
  /\ Len(tr_log) >= 2
  /\ Succeeded(tr_log[1])
  /\ tr_log[1].text = Merhaba
  /\ tr_log[2].op = "translate"
  /\ tr_log[2].text = Merhaba
  /\ tr_log[2].translator = "error"
  /\ ~tr_log[2].called
  /\ tr_log[2].out = Hello

\* C19: when the external translation fails, _translate_text returns the
\* original text and leaves the cache as it was, and the record standardizer
\* that called it still returns its document, with the original texts (the
\* body of a review that has none aside, see C22); for
\* an empty text and for a text of white space only _translate_text returns
\* the text without looking into the cache and without calling the
\* translator.
Blank(text) == \A i \in DOMAIN text : text[i] = NL
C19_TranslationFailure ==
  \A i \in DOMAIN tr_log :
    LET call == tr_log[i] IN
      /\ (call.op = "translate" /\ call.called /\ call.translator = "error")
           => call.out = call.text /\ call.after = call.before
      /\ (call.op = "translate" /\ Blank(call.text))
           => /\ call.out = call.text
              /\ ~call.looked
              /\ ~call.called
              /\ call.after = call.before
      /\ (call.op = "standardize" /\ call.called
          /\ call.translator = "error")
           => /\ call.after = call.before
              /\ call.doc._id = call.review._id
              /\ call.doc.response_from_owner_text =
                   call.review.response_from_owner_text
              /\ call.doc.title = call.review.title
              /\ call.review.review_text # NoText
                   => call.doc.review_text = call.review.review_text
\* the translation of "merhaba" failed, and it was asked for again by a
\* review while the translator was still down
C19_Witness ==
  /\ Len(tr_log) = 2
  /\ tr_log[1].op = "translate"
  /\ tr_log[1].text = Merhaba
  /\ tr_log[1].translator = "error"
  /\ tr_log[1].called
  /\ tr_log[1].out = Merhaba
  /\ tr_log[2].op = "standardize"
  /\ tr_log[2].translator = "error"
  /\ tr_log[2].called
  /\ tr_log[2].doc.response_from_owner_text = Merhaba
  /\ translation_cache = {}

\* C20: language detection gives none for an empty owner response, and a
\* detector failure on a non-empty owner response is treated as needing
\* translation: when the stage standardizes a review whose non-empty owner
\* response got no language, it has sent that review to the translator.
C20_DetectorFailureTranslated ==
  /\ [](\A d \in ls_unified_reviews \cup SeqDocs(ls_reviews_to_insert) :
          d.response_from_owner_text = NoText =>
            d.response_from_owner_language = "none")
  /\ [][(ls_pc = "records" /\ page_pos' = page_pos + 1) =>
          LET review == unified_reviews_batch[page_pos + 1]
          IN \A d \in SeqDocs(ls_reviews_to_insert') :
               (/\ d._id = review._id
                /\ review.response_from_owner_text # NoText
                /\ d.response_from_owner_language = "none") =>
                 review._id \in external_calls']_vars

\* C21: standardizing already-English content is a no-op. When the owner
\* response of a Google review is detected as English, and when a
\* Trustpilot review has review language English and an owner response that
\* is absent or detected as English, the standardized document has the
\* title, the body and the owner response of the unified review, no
\* external translation call is made and the cache is left as it was.
AlreadyEnglish(call) ==
  IF call.review.platform = "google"
  THEN call.doc.response_from_owner_language = "en"
  ELSE /\ call.review.review_language = "en"
       /\ \/ call.doc.response_from_owner_language = "en"
          \/ call.review.response_from_owner_text = NoText
C21_EnglishIsNoOp ==
  \A i \in DOMAIN tr_log :
    (tr_log[i].op = "standardize" /\ AlreadyEnglish(tr_log[i])) =>
      /\ tr_log[i].doc.title = tr_log[i].review.title
      /\ tr_log[i].doc.review_text = tr_log[i].review.review_text
      /\ tr_log[i].doc.response_from_owner_text =
           tr_log[i].review.response_from_owner_text
      /\ ~tr_log[i].called
      /\ tr_log[i].after = tr_log[i].before
\* a Google review answered in English and an English Trustpilot review
\* were standardized
C21_Witness ==
  /\ Len(tr_log) >= 2
  /\ tr_log[1].op = "standardize"
  /\ tr_log[1].review.platform = "google"
  /\ tr_log[1].review.response_from_owner_text = Hello
  /\ tr_log[1].doc.response_from_owner_language = "en"
  /\ tr_log[2].op = "standardize"
  /\ tr_log[2].review.platform = "trustpilot"
  /\ tr_log[2].review.review_language = "en"
  /\ tr_log[2].doc.review_text = Hello

\* C22: for a non-English Trustpilot review, title and body are joined with
\* one line separator, translated in one call and split back at the first
\* separator: with a title, the standardized title is the translation of
\* the title and the standardized body the translation of the body; without
\* a title, the title is unchanged and the body is the translation of the
\* body. Where the translator gives the text back as it is (here: it
\* fails), title and body come back as they were.
Rendered(text, call) ==
  IF call.called /\ call.translator = "error" THEN text ELSE English(text)
NonEnglishContent(call) ==
  /\ call.op = "standardize"
  /\ call.review.platform = "trustpilot"
  /\ call.review.review_language \notin {"none", "en"}
  /\ call.review.title # NoText \/ call.review.review_text # NoText
C22_JoinTranslateSplit ==
  \A i \in DOMAIN tr_log :
    NonEnglishContent(tr_log[i]) =>
      LET call == tr_log[i] IN
        /\ call.doc.title = IF call.review.title # NoText
                            THEN Rendered(call.review.title, call)
                            ELSE call.review.title
        /\ call.doc.review_text = Rendered(call.review.review_text, call)
        /\ (call.called /\ call.translator = "error") =>
             /\ call.doc.title = call.review.title
             /\ call.doc.review_text = call.review.review_text

\* C23: after any sequence of standardization runs, with failed inserts,
\* failed translations, failed detections and interruptions, the
\* standardized store holds at most one document per identity, and a
\* standardized document once written stays in the store as it was written.
C23_StandardizedOnce ==
  /\ [](\A d, e \in ls_unified_reviews : d._id = e._id => d = e)
  /\ [][ls_unified_reviews \subseteq ls_unified_reviews']_vars
\* a run that could not read the standardized identities standardized
\* review 1 again, this time with a call of the translator, and wrote it:
\* the store still holds the document of the earlier run, whose detection
\* had failed
C23_Witness ==
  /\ ls_fetch_failed
  /\ ls_pc = "page"
  /\ ls_reviews_to_insert = <<>>
  /\ 1 \in external_calls
  /\ \E d \in ls_unified_reviews :
       /\ d._id = 1
       /\ d.response_from_owner_text = Merhaba
       /\ d.response_from_owner_language = "none"

\* C24: stages only append downstream. No step of any stage changes the raw
\* collections; the unified collection changes only in a step of the
\* unification stage and only by gaining documents; the standardized
\* collection changes only in a step of the standardization stage and the
\* enrichment collection only in a step of the enrichment stage.
C24_StagesOnlyAppend ==
  /\ [][google' = google /\ trustpilot' = trustpilot]_vars
  /\ [][unified_reviews \subseteq unified_reviews']_vars
  /\ [][unified_reviews' # unified_reviews =>
          pc[1] # "idle" /\ ls_pc = "idle" /\ ls_pc' = "idle"
          /\ en_pc' = en_pc]_vars
  /\ [][ls_unified_reviews' # ls_unified_reviews =>
          ls_pc # "idle" /\ pc' = pc /\ en_pc' = en_pc]_vars
  /\ [][enriched_reviews' # enriched_reviews =>
          en_pc # "idle" /\ pc' = pc /\ ls_pc' = ls_pc]_vars
\* the three stages have run and written: the raw collections and the
\* unified collection are as unification left them
C24_Witness ==
  /\ pc[1] = "idle" /\ ls_pc = "idle" /\ en_pc = "idle"
  /\ en_result = "ok"
  /\ Cardinality(google) = 2 /\ Cardinality(trustpilot) = 1
  /\ Ids(unified_reviews) = {1, 2, 3}
  /\ Ids(ls_unified_reviews) = {1, 2, 3}
  /\ enriched_reviews # {}
  /\ \A u \in unified_reviews : u.platform = "google" =>
       u = StandardizeGoogleReview(
             CHOOSE r \in google : r._id = u._id, u.created_at)

\* C25: over the three binary inputs the online-communication score of a
\* review is 0 without a complaint, 1 for a complaint without a response,
\* 3 for a complaint with a constructive response and 2 for a complaint
\* with a response that is not constructive; the reviews scored 0 are not
\* counted in the denominator of the establishment's online-communication
\* score, which is missing when no review is a complaint
Complaints(enriched) == {d \in enriched : d.is_complaint = 1}
Answered(enriched) == {d \in Complaints(enriched) : d.has_response = 1}
Constructive(enriched) ==
  {d \in Answered(enriched) : d.has_constructive_response = 1}
C25_OnlineCommunicationTable ==
  /\ score_call.op = "online" /\ score_call.done
       /\ DOMAIN score_call.enriched_data = BinaryFields
     => LET d == score_call.enriched_data
        IN /\ d.is_complaint = 0 => score_call.out = 0
           /\ d.is_complaint = 1 /\ d.has_response = 0
                => score_call.out = 1
           /\ d.is_complaint = 1 /\ d.has_response = 1
                /\ d.has_constructive_response = 1 => score_call.out = 3
           /\ d.is_complaint = 1 /\ d.has_response = 1
                /\ d.has_constructive_response = 0 => score_call.out = 2
  /\ score_call.op = "scores" /\ score_call.done
     => LET total == Cardinality(Complaints(score_call.enriched))
            positive == Cardinality(Constructive(score_call.enriched))
            negative == total - Cardinality(Answered(score_call.enriched))
            field == "online_communication_score"
        IN IF total = 0 THEN field \notin DOMAIN score_call.out
           ELSE /\ field \in DOMAIN score_call.out
                /\ score_call.out[field][1] * total
                     = (positive - negative) * 10000
C25_Witness ==
  /\ score_call.op = "scores" /\ score_call.done
  /\ Cardinality(score_call.enriched) = 2
  /\ Cardinality(Complaints(score_call.enriched)) = 1
  /\ Answered(score_call.enriched) = {}
  /\ score_call.out.online_communication_score = Num(-10000)

\* C26: the score of a Counter is None when it counts no 1, 2 or 3; else
\* it is ((count of 3) - (count of 1)) / (count of 3, 2 and 1) * 100
\* rounded to two decimal places, whatever the count of 0: 100 when every
\* counted value is 3, -100 when every one is 1, and within [-100, 100]
Abs(x) == IF x < 0 THEN -x ELSE x
Counted(c) == c[1] + c[2] + c[3]
NpsReturned == score_call.op = "nps" /\ score_call.done
C26_NpsRounded ==
  NpsReturned =>
    LET c == score_call.score_counts
        out == score_call.out
    IN IF Counted(c) = 0 THEN out = None
       ELSE /\ out # None
            /\ 2 * Abs(out[1] * Counted(c) - (c[3] - c[1]) * 10000)
                 <= Counted(c)
            /\ c[3] = Counted(c) => out[1] = 10000
            /\ c[1] = Counted(c) => out[1] = -10000
            /\ -10000 <= out[1] /\ out[1] <= 10000
\* C26 as stated: the score is exactly that quotient
C26_NpsExact ==
  NpsReturned =>
    LET c == score_call.score_counts
        out == score_call.out
    IN IF Counted(c) = 0 THEN out = None
       ELSE /\ out # None
            /\ out[1] * Counted(c) = (c[3] - c[1]) * 10000
            /\ -10000 <= out[1] /\ out[1] <= 10000
C26_Witness ==
  /\ NpsReturned
  /\ score_call.score_counts =
       [v \in ScoreValues |-> IF v = 1 THEN 0 ELSE IF v = 2 THEN 2 ELSE 1]
  /\ score_call.out = Num(3333)

\* C27: a composite score is None when no attribute of its weight table
\* has a score; else it is the sum of score * weight over the attributes
\* that have one, divided by the sum of their weights only and rounded to
\* two decimal places, and it lies between the smallest and the largest of
\* those scores
Defined(scores, weights) == DOMAIN weights \cap DOMAIN scores
Weighted(scores, weights) ==
  SumOf(Defined(scores, weights),
        [a \in Defined(scores, weights) |-> scores[a][1] * weights[a]])
UsedWeight(scores, weights) == SumOf(Defined(scores, weights), weights)
CompositeReturned == score_call.op = "composite" /\ score_call.done
C27_CompositeRounded ==
  CompositeReturned =>
    LET scores == score_call.individual_scores
        weights == score_call.weights
        out == score_call.out
    IN IF Defined(scores, weights) = {} THEN out = None
       ELSE /\ out # None
            /\ 2 * Abs(out[1] * UsedWeight(scores, weights)
                         - Weighted(scores, weights))
                 <= UsedWeight(scores, weights)
            /\ \E a \in Defined(scores, weights) : scores[a][1] <= out[1]
            /\ \E a \in Defined(scores, weights) : out[1] <= scores[a][1]
\* C27 as stated: the composite is exactly that weighted average
C27_CompositeExact ==
  CompositeReturned =>
    LET scores == score_call.individual_scores
        weights == score_call.weights
        out == score_call.out
    IN IF Defined(scores, weights) = {} THEN out = None
       ELSE /\ out # None
            /\ out[1] * UsedWeight(scores, weights)
                 = Weighted(scores, weights)
\* weights 0.3, 0.2, 0.3, 0.2 with only 60 and 80 defined give 68
C27_Witness ==
  /\ CompositeReturned
  /\ score_call.weights = SERVICE_QUALITY_WEIGHTS
  /\ score_call.individual_scores =
       [a \in {"treatment_satisfaction", "post_op"} |->
          IF a = "post_op" THEN Num(8000) ELSE Num(6000)]
  /\ score_call.out = Num(6800)

\* C28: for n >= 1 ratings the adjusted rating is
\* (100 * prior + n * mean) / (100 + n) rounded to three decimal places; it
\* does not decrease when the mean grows with n and the prior fixed, it is
\* no further than the rounding from the interval between the prior and
\* the mean, and with the mean and the prior fixed its distance to the
\* mean does not grow with n
AdjustedReturned ==
  score_call.op = "adjusted" /\ score_call.done /\ score_call.ratings # <<>>
\* 1000 * (100 * prior + n * mean) as a fraction over Scale(ratings, prior)
Shrunk(ratings, prior) ==
  1000 * (100 * prior.num + SumSeq(ratings) * prior.den)
Scale(ratings, prior) == prior.den * (100 + Len(ratings))
C28_AdjustedRounded ==
  AdjustedReturned =>
    LET r == score_call.ratings
        p == score_call.prior_avg
        n == Len(r)
        out == score_call.out[1]
    IN /\ 2 * Abs(out * Scale(r, p) - Shrunk(r, p)) <= Scale(r, p)
       /\ \A q \in RatingLists :
            Len(q) = n /\ SumSeq(q) >= SumSeq(r)
              => CalculateAdjustedRating(q, p)[1] >= out
       /\ \/ 2 * out * p.den >= 2000 * p.num - p.den
          \/ 2 * out * n >= 2000 * SumSeq(r) - n
       /\ \/ 2 * out * p.den <= 2000 * p.num + p.den
          \/ 2 * out * n <= 2000 * SumSeq(r) + n
       /\ \A q \in RatingLists :
            Len(q) >= n /\ SumSeq(q) * n = SumSeq(r) * Len(q)
              => Abs(CalculateAdjustedRating(q, p)[1] * n - 1000 * SumSeq(r))
                   <= Abs(out * n - 1000 * SumSeq(r))
\* C28 as stated: the adjusted rating is exactly that quotient and lies
\* between the prior and the mean
C28_AdjustedExact ==
  AdjustedReturned =>
    LET r == score_call.ratings
        p == score_call.prior_avg
        n == Len(r)
        out == score_call.out[1]
    IN /\ out * Scale(r, p) = Shrunk(r, p)
       /\ out * p.den >= 1000 * p.num \/ out * n >= 1000 * SumSeq(r)
       /\ out * p.den <= 1000 * p.num \/ out * n <= 1000 * SumSeq(r)
C28_Witness ==
  /\ AdjustedReturned
  /\ score_call.ratings = <<4, 4, 5>>
  /\ score_call.prior_avg = [num |-> 13, den |-> 3]
  /\ score_call.out = Num(4333)

\* C29: a scoring run leaves every score field of an establishment as it
\* was when the establishment was already scored and the review stores
\* have not changed since
ScoreFields ==
  {"adjusted_rating", "affordability_score", "recommendation_score",
   "service_quality_score", "communication_score",
   "online_communication_score"}
Scores(doc) == [f \in ScoreFields \cap DOMAIN doc |-> doc[f]]
ScoringRun == score_clock' = score_clock + 1
C29_ScoringIdempotent ==
  [][ScoringRun =>
       \A e \in Establishments :
         last_scored[e] >= 1
           => Scores(establishments'[e]) = Scores(establishments[e])]_vars
C29_Witness ==
  /\ last_scored[1] = 2
  /\ establishments[1].scores_updated_at = 2
  /\ Get(establishments[1], "affordability_score", None) = Num(10000)
  /\ establishments[1].adjusted_rating = Num(3990)

\* C30: after a scoring run the score fields of every establishment the
\* run scored are those computed from the review stores as they are: a
\* score that is None with the current data is not on the document
ScoredNow(e) ==
  /\ "scores_updated_at" \in DOMAIN establishments'[e]
  /\ establishments'[e].scores_updated_at = score_clock'
C30_RecomputedWholesale ==
  [][ScoringRun =>
       \A e \in Establishments :
         ScoredNow(e)
           => Scores(establishments'[e])
                = Scores(CalculateEstablishmentScores(
                           e, CalculatePriorAverage(ls_unified_reviews),
                           score_clock'))]_vars

\* C31: nothing is written to a store, no external service is called and
\* no stage starts unless every credential and configuration file of the
\* run was found: the standardization stage writes and translates only
\* with the connection string, the scraper token and the generative-API
\* key, and the enrichment stage starts only with the configuration it
\* read from its file, never with a substitute, and no file is created
StandardizeFiles == {"mongodb_connection", "apify_token", "google_api_key"}
C31_ConfigurationFatal ==
  [][/\ ls_unified_reviews' # ls_unified_reviews
          => StandardizeFiles \subseteq files
     /\ external_calls' # external_calls => StandardizeFiles \subseteq files
     /\ en_pc' # en_pc => processor.config = "file"
     /\ files' = files]_vars

\* C32: in a combined command the stages run in the order scrape, unify,
\* standardize; a stage writes only while the command is in it, and the
\* command is in it only when every earlier stage returned success; once a
\* stage returned failure the command is over with failure and no store
\* changes any more
StagesRan == [i \in 1..Len(cmd.ran) |-> cmd.ran[i].stage]
AllSucceeded == \A i \in 1..Len(cmd.ran) : cmd.ran[i].ok
StageFailed == \E i \in 1..Len(cmd.ran) : ~cmd.ran[i].ok
InStage(n) ==
  /\ Len(cmd.ran) = n - 1
  /\ AllSucceeded
  /\ n <= Len(StagesOf(cmd.name))
C32_StagesInOrder ==
  [][/\ StagesRan' = SubSeq(StagesOf(cmd'.name), 1, Len(cmd'.ran))
     /\ rawVars' # rawVars => cmd.pc = "scraping" /\ InStage(1)
     /\ (unified_reviews' # unified_reviews \/ pc' # pc)
          => cmd.pc = "unify" /\ InStage(2)
     /\ (ls_unified_reviews' # ls_unified_reviews \/ ls_pc' # ls_pc)
          => cmd.pc = "standardize" /\ InStage(3)
     /\ StageFailed' => cmd'.pc = "done" /\ cmd'.success = "false"
     /\ StageFailed
          => /\ cmd' = cmd
             /\ <<rawVars, unified_reviews, ls_unified_reviews>>' =
                  <<rawVars, unified_reviews, ls_unified_reviews>>]_vars
C32_Witness ==
  /\ cmd.name = "full-pipeline"
  /\ cmd.pc = "done"
  /\ cmd.success = "false"
  /\ StagesRan = <<"scrape", "unify">>
  /\ \E d \in google \cup trustpilot :
       d._id >= 3 /\ d._id \notin Ids(unified_reviews)

\* C33: whatever the order in which finished unification runs took place,
\* the unified store holds exactly the identities of the raw records of
\* their filters, each document mapped from the raw record of its identity
\* (the mapping time aside), which is also what one run over the union of
\* the filters leaves
RawRecords == google \cup trustpilot
RawOf(f) == Ids(Find(google, f)) \cup Ids(Find(trustpilot, f))
RunsDone == {p \in Procs : result[p] = "ok"}
MappedFrom(r, now) ==
  IF r.platform = "google" THEN StandardizeGoogleReview(r, now)
  ELSE StandardizeTrustpilotReview(r, now)
C33_RunsCommute ==
  (\A p \in Procs : pc[p] = "idle") =>
    /\ Ids(unified_reviews) = UNION {RawOf(query_filter[p]) : p \in RunsDone}
    /\ \A d \in unified_reviews :
         \E r \in RawRecords :
           r._id = d._id /\ d = MappedFrom(r, d.created_at)
    /\ \A a \in RunFilters \ {{}}, c \in RunFilters \ {{}} :
         RawOf(a \cup c) = RawOf(a) \cup RawOf(c)
C33_Witness ==
  /\ \A p \in Procs : pc[p] = "idle"
  /\ RunsDone = Procs
  /\ query_filter[1] = {1}
  /\ query_filter[2] = {2}
  /\ Ids(unified_reviews) = RawOf({1, 2})
  /\ \E d \in unified_reviews : d.establishment_id = 1 /\ d.created_at = 1

\* C34: a scoring run restricted to a list of entity ids leaves on the
\* document of every listed entity that exists (and whose scoring did not
\* raise) the scores computed for it, as an unrestricted run does
C34_RestrictedRunWrites ==
  [][ScoringRun =>
       \A e \in DOMAIN establishments :
         (e \in score_call'.establishment_ids /\ e \notin score_call'.failing)
           => establishments'[e] =
                Update(establishments[e],
                       CalculateEstablishmentScores(
                         e, CalculatePriorAverage(ls_unified_reviews),
                         score_clock'))]_vars

\* C35: a user interruption raised while the standardization stage runs,
\* wherever it is raised, ends the stage at once: the step in which it is
\* raised leaves the stage interrupted and not running
C35_InterruptEndsStage ==
  [][(ls_interrupts' # ls_interrupts /\ ls_interrupts' # {})
       => ls_pc' = "idle" /\ ls_result' = "interrupted"]_vars

\* C36: the write buffer of the unification and of the standardization
\* stage never holds more documents than the batch size; when a stage
\* returns normally its buffer is empty and, no write having failed, every
\* record of the run's filter is in the target store
UnifyReturned == pc[1] # "idle" /\ pc'[1] = "idle" /\ result'[1] = "ok"
LsReturned == ls_pc # "idle" /\ ls_pc' = "idle" /\ ls_result' = "ok"
C36_BufferBounded ==
  [][/\ \A p \in Procs : Len(reviews_to_insert'[p]) <= FlushSize
     /\ Len(ls_reviews_to_insert') <= FlushSize
     /\ UnifyReturned
          => /\ reviews_to_insert'[1] = <<>>
             /\ RawOf(query_filter[1]) \subseteq Ids(unified_reviews')
     /\ LsReturned
          => /\ ls_reviews_to_insert' = <<>>
             /\ Ids(Find(unified_reviews, ls_filter))
                  \subseteq Ids(ls_unified_reviews')]_vars
C36_Witness ==
  /\ result[1] = "ok"
  /\ ls_result = "ok"
  /\ ls_pc = "idle"
  /\ Cardinality(unified_reviews) >= FlushSize
  /\ Ids(unified_reviews) = RawOf({})
  /\ Ids(ls_unified_reviews) = Ids(unified_reviews)

\* C37: the attributes a call returns are merged only under the identities
\* of the batch that was sent in that call: the enrichment data the run
\* writes to the enrichment documents gains or changes an entry only for a
\* review of the prompt
C37_MergedOnlyForBatch ==
  [][\A review_id \in DOMAIN enrichment_data' :
       (\/ review_id \notin DOMAIN enrichment_data
        \/ enrichment_data'[review_id] # enrichment_data[review_id])
         => review_id \in en_prompt'.ids]_vars

\* C38: the standardized title of a non-English Trustpilot review that has
\* a title is the translation of the title whenever the translator
\* answered, with or without a body
C38_TitleTranslated ==
  \A i \in DOMAIN tr_log :
    (/\ NonEnglishContent(tr_log[i])
     /\ tr_log[i].review.title # NoText
     /\ tr_log[i].translator = "ok")
      => /\ tr_log[i].doc.title = English(tr_log[i].review.title)
         /\ tr_log[i].doc.title # tr_log[i].review.title

\* C39: in every reachable state the identities of the enrichment store
\* are identities of the standardized store, those are identities of the
\* unified store, and those are identities of raw records; every unified,
\* standardized and enrichment document has the establishment and the
\* platform tag of the raw record of its identity
Derived == unified_reviews \cup ls_unified_reviews \cup enriched_reviews
C39_PipelineContainment ==
  /\ Ids(enriched_reviews) \subseteq Ids(ls_unified_reviews)
  /\ Ids(ls_unified_reviews) \subseteq Ids(unified_reviews)
  /\ Ids(unified_reviews) \subseteq Ids(RawRecords)
  /\ \A d \in Derived :
       \E r \in RawRecords :
         /\ r._id = d._id
         /\ d.establishment_id = r.establishment_id
         /\ d.platform = r.platform
C39_Witness ==
  /\ enriched_reviews # {}
  /\ Ids(enriched_reviews) # Ids(ls_unified_reviews)
  /\ Ids(unified_reviews) # Ids(RawRecords)

\* C40: a scoring run writes adjusted_rating = None to the document of an
\* establishment that has no rating above zero, and to the document of a
\* rated one the rating shrunk towards the mean of all ratings above zero
\* of the standardized store, whichever establishment they belong to; the
\* prior average is that mean, and 4.0 when the store has no such rating
RatingsAboveZero(S) ==
  {d \in S : "rating" \in DOMAIN d /\ d.rating > 0}
RatingSum(S) == SumOf(Ids(S), [i \in Ids(S) |-> (CHOOSE d \in S : d._id = i).rating])
MeanOfAll ==
  LET all == RatingsAboveZero(ls_unified_reviews)
  IN IF all = {} THEN [num |-> 4, den |-> 1]
     ELSE [num |-> RatingSum(all), den |-> Cardinality(all)]
OwnRatings(e) ==
  {d \in RatingsAboveZero(ls_unified_reviews) : d.establishment_id = e}
====
